---------------------------- MODULE Spec2Model ----------------------------
(***************************************************************************)
(* Planning / validation / execution / synthesis pipeline of agent-ops.   *)
(*                                                                         *)
(*   app/services/plan_validator.py   ALLOWED_ACTIONS, PlanValidator       *)
(*   app/models/schemas.py            PlanStep, TraceEntry                 *)
(*   app/services/orchestrator.py     TaskOrchestrator                     *)
(*   app/services/llm_planner.py      LLMPlanner.plan, .synthesize         *)
(*   app/services/llm_client.py       LLMClient.complete, AsyncSemaphore   *)
(*   app/utils/trace_persistence.py   save_trace                           *)
(*   app/api/dependencies.py          _cached_agents, _cached_planner,     *)
(*                                    get_plan_validator                   *)
(*   app/api/routes.py                execute_task                         *)
(*   app/services/onboard_flow.py     execute_onboard_flow,                *)
(*                                    map_to_jenkins_services              *)
(*   app/agents/jenkins_agent.py      JenkinsAgent.trigger_provide_access  *)
(*                                                                         *)
(* JSON values are records [t, s, n, m, l]: t is the Python type of the    *)
(* parsed value, s a string payload, n an integer payload, m the tenths of *)
(* a float's fractional part and l the elements of a list.                 *)
(***************************************************************************)
EXTENDS Integers, Sequences, FiniteSets, TLC

\* ------------------------------------------------------------------ bounds
MaxSteps == 3
MaxStepId == 2
MaxServices == 2
MaxCalls == 3

\* ------------------------------------------------------------ JSON values
ElemStr(x) == [t |-> "str", s |-> x, n |-> 0]
ElemInt(k) == [t |-> "int", s |-> "", n |-> k]
ElemNull == [t |-> "null", s |-> "", n |-> 0]

StrV(x) == [t |-> "str", s |-> x, n |-> 0, m |-> 0, l |-> <<>>]
IntV(k) == [t |-> "int", s |-> "", n |-> k, m |-> 0, l |-> <<>>]
FloatV(k, tenths) == [t |-> "float", s |-> "", n |-> k, m |-> tenths, l |-> <<>>]
BoolV(b) == [t |-> "bool", s |-> "", n |-> IF b THEN 1 ELSE 0, m |-> 0, l |-> <<>>]
NullV == [t |-> "null", s |-> "", n |-> 0, m |-> 0, l |-> <<>>]
ListV(elems) == [t |-> "list", s |-> "", n |-> 0, m |-> 0, l |-> elems]

\* isinstance(value, expected_type) for the three types the registry uses;
\* bool is a subclass of int in Python.
IsInstance(value, expected_type) ==
    CASE expected_type = "str" -> value.t = "str"
      [] expected_type = "int" -> value.t \in {"int", "bool"}
      [] expected_type = "list" -> value.t = "list"
      [] OTHER -> FALSE

\* Variant: every float counts as integer valued.
AnyFloat(value) == value.t = "float"

\* float.is_integer()
IsIntegerFloat(value) == value.t = "float" /\ value.m = 0

\* int(value) of a float: truncation toward zero; the value keeps Python
\* type int.
IntOfFloat(value) == IntV(value.n)

\* ---------------------------------------------------- Capability Registry
Req(key, expected_type, required) ==
    [key |-> key, type |-> expected_type, required |-> required]

\* Requirements are sequences: Python dicts iterate in insertion order.
ALLOWED_ACTIONS ==
    [GithubAgent |->
        [get_pr |-> << Req("owner", "str", TRUE), Req("repo", "str", TRUE),
                       Req("number", "int", TRUE) >>,
         list_recent_commits |->
                    << Req("owner", "str", TRUE), Req("repo", "str", TRUE),
                       Req("branch", "str", TRUE), Req("limit", "int", FALSE) >>,
         get_file |-> << Req("owner", "str", TRUE), Req("repo", "str", TRUE),
                         Req("path", "str", TRUE), Req("ref", "str", TRUE) >>],
     AWSAgent |->
        [list_s3_buckets |-> << >>,
         describe_ec2_instances |-> << Req("region", "str", TRUE) >>,
         get_s3_object_head |-> << Req("bucket", "str", TRUE),
                                   Req("key", "str", TRUE) >>],
     JiraAgent |->
        [get_issue |-> << Req("issue_key", "str", TRUE) >>,
         search_issues |-> << Req("jql", "str", TRUE),
                              Req("limit", "int", FALSE) >>],
     JenkinsAgent |->
        [trigger_provide_access |->
                    << Req("user_email", "str", TRUE),
                       Req("services", "list", TRUE),
                       Req("cc_email", "str", FALSE),
                       Req("aws_iam_user_group", "str", FALSE),
                       Req("github_team", "str", FALSE),
                       Req("env_name", "str", FALSE) >>]]

\* schemas.AgentName: the Literal the PlanStep model accepts for `agent`.
AgentName == {"GithubAgent", "AWSAgent", "JiraAgent", "JenkinsAgent", "EntraAgent"}

ReqKeys(requirements) == {requirements[i].key : i \in 1..Len(requirements)}

\* ------------------------------------------------------------------ errors
NoError == [exc |-> "none", kind |-> "none", name |-> "", step_id |-> -1]
PlanValidationError(kind, name, step_id) ==
    [exc |-> "PlanValidationError", kind |-> kind, name |-> name, step_id |-> step_id]
\* pydantic.ValidationError raised by PlanStep(**raw_step)
ValidationError(kind, name, step_id) ==
    [exc |-> "ValidationError", kind |-> kind, name |-> name, step_id |-> step_id]

\* --------------------------------------------------------------- PlanStep
\* PlanStep(**raw_step): step_id must be non-negative, agent must be one of
\* AgentName; args is copied into a new dict owned by the model.
PlanStepError(raw_step) ==
    IF raw_step.step_id < 0
        THEN ValidationError("step_id", "step_id", raw_step.step_id)
    ELSE IF raw_step.agent \notin AgentName
        THEN ValidationError("agent", raw_step.agent, raw_step.step_id)
    ELSE NoError

PlanStep(raw_step) ==
    [step_id |-> raw_step.step_id, agent |-> raw_step.agent,
     action |-> raw_step.action, args |-> raw_step.args]

\* ---------------------------------------------------------- _validate_args
Restrict(f, keys) == [k \in (DOMAIN f) \cap keys |-> f[k]]

RECURSIVE CheckArgsSkipMissing(_, _, _, _)
\* Variant: an absent argument is skipped whether or not it is required.
CheckArgsSkipMissing(action, provided_args, requirements, i) ==
    IF i > Len(requirements)
        THEN [err |-> NoError, args |-> provided_args]
    ELSE LET key == requirements[i].key
             expected_type == requirements[i].type
         IN IF key \notin DOMAIN provided_args
                THEN CheckArgsSkipMissing(action, provided_args, requirements, i + 1)
            ELSE LET value == provided_args[key]
                 IN IF IsInstance(value, expected_type)
                        THEN CheckArgsSkipMissing(action, provided_args, requirements, i + 1)
                    ELSE IF expected_type = "int" /\ value.t = "float" /\ value.m = 0
                        THEN CheckArgsSkipMissing(action,
                                       [provided_args EXCEPT ![key] = IntV(value.n)],
                                       requirements, i + 1)
                    ELSE [err |-> PlanValidationError("type", key, -1),
                          args |-> provided_args]

RECURSIVE CheckArgs(_, _, _, _)
\* The loop over requirements.items(), from index i on; returns the error
\* raised, or the args as rewritten by the int coercion.
CheckArgs(action, provided_args, requirements, i) ==
    IF i > Len(requirements)
        THEN [err |-> NoError, args |-> provided_args]
    ELSE LET key == requirements[i].key
             expected_type == requirements[i].type
             required == requirements[i].required
         IN IF key \notin DOMAIN provided_args
                THEN IF required
                        THEN [err |-> PlanValidationError("missing", key, -1),
                              args |-> provided_args]
                        ELSE CheckArgs(action, provided_args, requirements, i + 1)
            ELSE LET value == provided_args[key]
                 IN IF IsInstance(value, expected_type)
                        THEN CheckArgs(action, provided_args, requirements, i + 1)
                    ELSE IF expected_type = "int" /\ IsIntegerFloat(value)
                        THEN CheckArgs(action,
                                       [provided_args EXCEPT ![key] = IntOfFloat(value)],
                                       requirements, i + 1)
                    ELSE [err |-> PlanValidationError("type", key, -1),
                          args |-> provided_args]

\* Variant: nothing is removed.
StripNothing(provided_args, requirements) == provided_args

\* Remove unexpected arguments: provided_args.pop(key) for every key that
\* the requirements do not name.
StripExtraneous(provided_args, requirements) ==
    Restrict(provided_args, ReqKeys(requirements))

validate_args(action, provided_args, requirements) ==
    LET checked == CheckArgs(action, provided_args, requirements, 1)
    IN IF checked.err # NoError
          THEN checked
          ELSE [err |-> NoError,
                args |-> StripExtraneous(checked.args, requirements)]


\* ------------------------------------------------ Python string behaviour
\* str(s) of a list element
IntStr(k) == CASE k = 0 -> "0" [] k = 5 -> "5" [] OTHER -> "int"
PyStr(elem) ==
    CASE elem.t = "str" -> elem.s
      [] elem.t = "int" -> IntStr(elem.n)
      [] OTHER -> "None"

\* truth value of a list element (`if s`)
PyTruthy(elem) ==
    CASE elem.t = "str" -> elem.s # ""
      [] elem.t = "int" -> elem.n # 0
      [] OTHER -> FALSE

\* str.strip() on the strings of the model: surrounding blanks are removed.
Strip(x) ==
    CASE x = " AWS " -> "AWS"
      [] x = " GitHub" -> "GitHub"
      [] x = " " -> ""
      [] x = " pending " -> "pending"
      [] OTHER -> x

\* str.lower() on the strings of the model.
lower(x) ==
    CASE x = "AWS" -> "aws"
      [] x = "GitHub" -> "github"
      [] x = "Confluence" -> "confluence"
      [] x = "Database" -> "database"
      [] x = "Jira" -> "jira"
      [] x = "None" -> "none"
      [] x = "Pending" -> "pending"
      [] x = "PENDING" -> "pending"
      [] OTHER -> x

\* Code-point order of the strings of the model, as sorted() compares them.
StrOrder == << "", "0", "5", "AWS", "Confluence", "Database", "GitHub",
               "Jira", "None", "aws", "github" >>
StrRank(x) == CHOOSE i \in 1..Len(StrOrder) : StrOrder[i] = x
StrLess(a, b) == StrRank(a) < StrRank(b)

RECURSIVE sorted(_)
\* sorted(list(S)) of a set of strings
sorted(S) ==
    IF S = {} THEN << >>
    ELSE LET least == CHOOSE x \in S : \A y \in S : ~StrLess(y, x)
         IN << least >> \o sorted(S \ {least})

\* ------------------------------------------- _validate_jenkins_services
VALID_SERVICES == {"AWS", "GitHub", "Confluence", "Database"}

\* Variant: a name is matched whatever its letter case and replaced by the
\* valid name.
ServicesSetAnyCase(services) ==
    LET Named(x) == IF \E v \in VALID_SERVICES : lower(v) = lower(x)
                       THEN CHOOSE v \in VALID_SERVICES : lower(v) = lower(x)
                       ELSE x
    IN {Named(Strip(PyStr(services[i]))) :
           i \in {j \in 1..Len(services) : PyTruthy(services[j])}}

\* {str(s).strip() for s in services if s}
ServicesSet(services) ==
    {Strip(PyStr(services[i])) : i \in {j \in 1..Len(services) : PyTruthy(services[j])}}

StrList(names) == ListV([i \in 1..Len(names) |-> ElemStr(names[i])])

validate_jenkins_services(args) ==
    IF "services" \notin DOMAIN args
        THEN [err |-> NoError, args |-> args]
    ELSE LET services == args["services"]
         IN IF services.t # "list"
                THEN [err |-> PlanValidationError("services_type", "services", -1),
                      args |-> args]
            ELSE IF Len(services.l) = 0
                THEN [err |-> PlanValidationError("services_empty", "services", -1),
                      args |-> args]
            ELSE IF ServicesSet(services.l) \ VALID_SERVICES # {}
                THEN [err |-> PlanValidationError("services_invalid", "services", -1),
                      args |-> args]
            ELSE [err |-> NoError,
                  args |-> [args EXCEPT !["services"] =
                                StrList(sorted(ServicesSet(services.l)))]]

\* JenkinsAgent.trigger_provide_access, lines 107-116 and 136: the check of
\* the services it is called with and the names it sends to Jenkins
\* (s.strip() raises AttributeError for an element that is not a string).
trigger_provide_access_services(services) ==
    LET services_set == {Strip(services[i].s) :
                            i \in {j \in 1..Len(services) : Strip(services[j].s) # ""}}
    IN IF \E i \in 1..Len(services) : services[i].t # "str"
          THEN [err |-> "AttributeError", sent |-> << >>]
       ELSE IF services_set \ VALID_SERVICES # {}
          THEN [err |-> "Invalid services", sent |-> << >>]
       ELSE IF services_set = {}
          THEN [err |-> "At least one service must be provided", sent |-> << >>]
       ELSE [err |-> "none", sent |-> sorted(services_set)]

\* ---------------------------------------------------- PlanValidator.validate
\* Variant: an operation the provider's table does not name is let through
\* with its args untouched.
ValidateStepAnyAction(raw_step) ==
    LET step == PlanStep(raw_step)
    IN IF step.agent \notin DOMAIN ALLOWED_ACTIONS
          THEN [err |-> PlanValidationError("agent", step.agent, step.step_id),
                step |-> step, arg_checked |-> FALSE]
       ELSE LET allowed == ALLOWED_ACTIONS[step.agent]
            IN IF step.action \notin DOMAIN allowed
                  THEN [err |-> NoError, step |-> step, arg_checked |-> FALSE]
               ELSE LET generic == validate_args(step.action, step.args,
                                                 allowed[step.action])
                    IN IF generic.err # NoError
                          THEN [err |-> generic.err, step |-> step,
                                arg_checked |-> TRUE]
                       ELSE IF step.agent = "JenkinsAgent"
                               /\ step.action = "trigger_provide_access"
                          THEN LET custom == validate_jenkins_services(generic.args)
                               IN [err |-> custom.err,
                                   step |-> [step EXCEPT !.args = custom.args],
                                   arg_checked |-> TRUE]
                       ELSE [err |-> NoError,
                             step |-> [step EXCEPT !.args = generic.args],
                             arg_checked |-> TRUE]

\* Variant: a provider the registry does not name is let through with its
\* args untouched.
ValidateStepAnyAgent(raw_step) ==
    LET step == PlanStep(raw_step)
    IN IF step.agent \notin DOMAIN ALLOWED_ACTIONS
          THEN [err |-> NoError, step |-> step, arg_checked |-> FALSE]
       ELSE LET allowed == ALLOWED_ACTIONS[step.agent]
            IN IF step.action \notin DOMAIN allowed
                  THEN [err |-> PlanValidationError("action", step.action, step.step_id),
                        step |-> step, arg_checked |-> FALSE]
               ELSE LET generic == validate_args(step.action, step.args,
                                                 allowed[step.action])
                    IN IF generic.err # NoError
                          THEN [err |-> generic.err, step |-> step,
                                arg_checked |-> TRUE]
                       ELSE IF step.agent = "JenkinsAgent"
                               /\ step.action = "trigger_provide_access"
                          THEN LET custom == validate_jenkins_services(generic.args)
                               IN [err |-> custom.err,
                                   step |-> [step EXCEPT !.args = custom.args],
                                   arg_checked |-> TRUE]
                       ELSE [err |-> NoError,
                             step |-> [step EXCEPT !.args = generic.args],
                             arg_checked |-> TRUE]

\* The outcome of validating one raw step once it is known not to repeat a
\* step_id: the error raised, or the PlanStep appended to validated_steps.
\* arg_checked records whether _validate_args ran for the step.
ValidateStep(raw_step) ==
    LET step == PlanStep(raw_step)
    IN IF step.agent \notin DOMAIN ALLOWED_ACTIONS
          THEN [err |-> PlanValidationError("agent", step.agent, step.step_id),
                step |-> step, arg_checked |-> FALSE]
       ELSE LET allowed == ALLOWED_ACTIONS[step.agent]
            IN IF step.action \notin DOMAIN allowed
                  THEN [err |-> PlanValidationError("action", step.action, step.step_id),
                        step |-> step, arg_checked |-> FALSE]
               ELSE LET generic == validate_args(step.action, step.args,
                                                 allowed[step.action])
                    IN IF generic.err # NoError
                          THEN [err |-> generic.err, step |-> step,
                                arg_checked |-> TRUE]
                       ELSE IF step.agent = "JenkinsAgent"
                               /\ step.action = "trigger_provide_access"
                          THEN LET custom == validate_jenkins_services(generic.args)
                               IN [err |-> custom.err,
                                   step |-> [step EXCEPT !.args = custom.args],
                                   arg_checked |-> TRUE]
                       ELSE [err |-> NoError,
                             step |-> [step EXCEPT !.args = generic.args],
                             arg_checked |-> TRUE]

RECURSIVE ValidateFromNoDuplicateCheck(_, _, _, _, _)
\* Variant: seen_ids is never consulted.
ValidateFromNoDuplicateCheck(plan_steps, i, validated_steps, seen_ids, arg_checked) ==
    IF i > Len(plan_steps)
        THEN [err |-> NoError, at |-> 0, steps |-> validated_steps,
              arg_checked |-> arg_checked]
    ELSE LET raw_step == plan_steps[i]
             Raise(e, checked) == [err |-> e, at |-> i, steps |-> << >>,
                                   arg_checked |-> checked]
         IN IF PlanStepError(raw_step) # NoError
               THEN Raise(PlanStepError(raw_step), arg_checked)
            ELSE LET r == ValidateStep(raw_step)
                     checked == IF r.arg_checked THEN arg_checked \cup {i}
                                                 ELSE arg_checked
                 IN IF r.err # NoError
                       THEN Raise(r.err, checked)
                       ELSE ValidateFromNoDuplicateCheck(plan_steps, i + 1,
                                         Append(validated_steps, r.step),
                                         seen_ids \cup {raw_step.step_id}, checked)

RECURSIVE ValidateFrom(_, _, _, _, _)
\* The loop `for raw_step in plan_steps` from position i on, with the
\* validated_steps and seen_ids accumulated so far; arg_checked is the set
\* of positions for which _validate_args has run.
ValidateFrom(plan_steps, i, validated_steps, seen_ids, arg_checked) ==
    IF i > Len(plan_steps)
        THEN [err |-> NoError, at |-> 0, steps |-> validated_steps,
              arg_checked |-> arg_checked]
    ELSE LET raw_step == plan_steps[i]
             Raise(e, checked) == [err |-> e, at |-> i, steps |-> << >>,
                                   arg_checked |-> checked]
         IN IF PlanStepError(raw_step) # NoError
               THEN Raise(PlanStepError(raw_step), arg_checked)
            ELSE IF raw_step.step_id \in seen_ids
               THEN Raise(PlanValidationError("duplicate", "step_id", raw_step.step_id),
                          arg_checked)
            ELSE LET r == ValidateStep(raw_step)
                     checked == IF r.arg_checked THEN arg_checked \cup {i}
                                                 ELSE arg_checked
                 IN IF r.err # NoError
                       THEN Raise(r.err, checked)
                       ELSE ValidateFrom(plan_steps, i + 1,
                                         Append(validated_steps, r.step),
                                         seen_ids \cup {raw_step.step_id}, checked)

Reverse(seq) == [i \in 1..Len(seq) |-> seq[Len(seq) + 1 - i]]

\* Variant: each validated step is put in front of validated_steps.
validate_reversed(plan_steps) ==
    LET r == ValidateFrom(plan_steps, 1, << >>, {}, {})
    IN [r EXCEPT !.steps = Reverse(r.steps)]

validate(plan_steps) == ValidateFrom(plan_steps, 1, << >>, {}, {})

\* ------------------------------------------------------------- raw plans
\* The planner's reply after its structural pre-check: a list of objects
\* that each have step_id, agent, action and args.
EmptyArgs == [k \in {} |-> NullV]
Put(f, k, v) == [x \in (DOMAIN f) \cup {k} |-> IF x = k THEN v ELSE f[x]]
Drop(f, k) == Restrict(f, (DOMAIN f) \ {k})
Call(agent, action, args) == [agent |-> agent, action |-> action, args |-> args]
RawStep(step_id, call) ==
    [step_id |-> step_id, agent |-> call.agent, action |-> call.action,
     args |-> call.args]

StepIds == 0..MaxStepId

GoodPr == [owner |-> StrV("o"), repo |-> StrV("r"), number |-> IntV(5)]
GoodSearch == [jql |-> StrV("q")]
GoodAccess(services) == [user_email |-> StrV("u@x"), services |-> services]

\* Values offered where the registry expects an integer / a string.
IntCandidates == {IntV(5), FloatV(5, 0), FloatV(5, 5), BoolV(TRUE), StrV("5"),
                  NullV, ListV(<< >>)}
StrCandidates == {StrV("o"), IntV(7), FloatV(5, 0), BoolV(TRUE), NullV, ListV(<< >>)}

WithExtra(argsets) == argsets \cup {Put(a, "token", StrV("x")) : a \in argsets}

ServiceElems == {ElemStr("AWS"), ElemStr("GitHub"), ElemStr(" AWS "), ElemStr("")}
ServiceLists ==
    UNION {[1..n -> ServiceElems] : n \in 0..MaxServices}
    \cup {<< ElemStr("github") >>, << ElemStr("github"), ElemStr("AWS") >>,
          << ElemStr("github"), ElemStr("AWS"), ElemStr("aws") >>,
          << ElemStr("Confluence"), ElemStr("AWS") >>, << ElemNull >>,
          << ElemInt(5) >>}

BasicCalls == {Call("GithubAgent", "get_pr", GoodPr)}

RichCalls ==
    {Call("GithubAgent", "get_pr", a) :
        a \in {Put(GoodPr, "number", v) : v \in IntCandidates}
              \cup {Put(GoodPr, "owner", v) : v \in StrCandidates}
              \cup WithExtra({GoodPr, Put(GoodPr, "number", FloatV(5, 0)),
                              Drop(GoodPr, "number"), Drop(GoodPr, "owner")})}
    \cup {Call("JiraAgent", "search_issues", a) :
        a \in {Put(GoodSearch, "limit", v) : v \in IntCandidates}
              \cup WithExtra({GoodSearch, Drop(GoodSearch, "jql")})}
    \cup {Call("AWSAgent", "list_s3_buckets", a) : a \in WithExtra({EmptyArgs})}
    \cup {Call("JenkinsAgent", "trigger_provide_access", a) :
        a \in {GoodAccess(ListV(l)) : l \in ServiceLists}
              \cup WithExtra({GoodAccess(StrList(<< "GitHub", "AWS" >>)),
                              GoodAccess(StrV("AWS")),
                              Drop(GoodAccess(NullV), "services"),
                              Put(GoodAccess(StrList(<< "AWS" >>)), "env_name", StrV("dev")),
                              Put(GoodAccess(StrList(<< "AWS" >>)), "env_name", IntV(1))})}
    \cup {Call(c[1], c[2], a) :
        c \in {<< "Nope", "x" >>, << "Nope", "get_pr" >>,
               << "EntraAgent", "generate_company_email" >>,
               << "GithubAgent", "delete_repo" >>, << "AWSAgent", "get_pr" >>},
        a \in {EmptyArgs, GoodPr}}

BasicSteps == {RawStep(id, c) : id \in StepIds, c \in BasicCalls}
RichSteps == {RawStep(id, c) : id \in StepIds, c \in RichCalls \ BasicCalls}
                \cup {RawStep(-1, c) : c \in BasicCalls}

\* Plans of at most MaxSteps steps: basic steps, and at most one step of
\* the set special.
BasicPlans == UNION {[1..n -> BasicSteps] : n \in 0..MaxSteps}
PlansWith(special) ==
    BasicPlans \cup
    {pre \o << r >> \o suf :
        << pre, suf >> \in {ps \in BasicPlans \X BasicPlans :
                                Len(ps[1]) + Len(ps[2]) < MaxSteps},
        r \in special}

\* Steps of the raw plans given to the orchestrator when execution is
\* examined (RichSteps are used when validation is examined).
OrchCalls == {Call("JiraAgent", "search_issues", GoodSearch),
              Call("AWSAgent", "list_s3_buckets", Put(EmptyArgs, "token", StrV("x"))),
              Call("JenkinsAgent", "trigger_provide_access",
                   GoodAccess(StrList(<< "GitHub", "AWS" >>))),
              Call("Nope", "x", EmptyArgs)}
OrchSteps == {RawStep(id, c) : id \in StepIds, c \in OrchCalls}

\* ------------------------------------------------- LLMPlanner.synthesize
\* JSON values of a synthesis reply.
JStr(x) == [t |-> "str", s |-> x]
JNum(k) == [t |-> "int", n |-> k]
JNull == [t |-> "null"]
JList(elems) == [t |-> "list", l |-> elems]
JDict(fields) == [t |-> "dict", d |-> fields]
NoFields == [k \in {} |-> JNull]

\* The JSON documents of the model, by name; "broken" is not valid JSON.
DocValue(doc) ==
    CASE doc = "text" ->
            JDict([final_result |->
                    JDict([type |-> JStr("text"), content |-> JDict([k |-> JStr("v")])])])
      [] doc = "structured" ->
            JDict([final_result |->
                    JDict([type |-> JStr("structured"), content |-> JDict(NoFields)]),
                   warnings |-> JList(<< JStr("s") >>)])
      [] doc = "warnings_not_list" ->
            JDict([final_result |->
                    JDict([type |-> JStr("text"), content |-> JDict(NoFields)]),
                   warnings |-> JStr("s")])
      [] doc = "bad_type" ->
            JDict([final_result |->
                    JDict([type |-> JStr("summary"), content |-> JDict(NoFields)])])
      [] doc = "content_list" ->
            JDict([final_result |->
                    JDict([type |-> JStr("text"), content |-> JList(<< >>)])])
      [] doc = "content_str" ->
            JDict([final_result |->
                    JDict([type |-> JStr("text"), content |-> JStr("done")])])
      [] doc = "content_null" ->
            JDict([final_result |-> JDict([type |-> JStr("text"), content |-> JNull])])
      [] doc = "no_content" ->
            JDict([final_result |-> JDict([type |-> JStr("text")])])
      [] doc = "result_str" -> JDict([final_result |-> JStr("done")])
      [] doc = "result_null" -> JDict([final_result |-> JNull])
      [] doc = "no_result" -> JDict([result |-> JStr("done")])
      [] doc = "array" -> JList(<< >>)
      [] doc = "array_of_name" -> JList(<< JStr("final_result") >>)
      [] doc = "string" -> JStr("done")
      [] doc = "string_with_name" -> JStr("the final_result")
      [] doc = "number" -> JNum(5)
      [] OTHER -> JNull

ValidDocs == {"text", "structured", "warnings_not_list", "bad_type", "content_list",
              "content_str", "content_null", "no_content", "result_str",
              "result_null", "no_result", "array", "array_of_name", "string",
              "string_with_name", "number", "null"}
Docs == ValidDocs \cup {"broken"}

\* A text is a sequence of lines.  A line is part `part` of the `parts`
\* lines a document is written on, a code fence with its language tag, a
\* blank line or prose.
JsonLine(doc, part, parts) ==
    [k |-> "json", doc |-> doc, part |-> part, parts |-> parts, tag |-> ""]
FenceLine(tag) == [k |-> "fence", doc |-> "", part |-> 0, parts |-> 0, tag |-> tag]
BlankLine == [k |-> "blank", doc |-> "", part |-> 0, parts |-> 0, tag |-> ""]
ProseLine == [k |-> "prose", doc |-> "", part |-> 0, parts |-> 0, tag |-> ""]

\* The document written on `parts` lines.
JsonText(doc, parts) == [i \in 1..parts |-> JsonLine(doc, i, parts)]

\* str.strip() of a text: leading and trailing blank lines go.
StripText(text) ==
    LET inked == {i \in 1..Len(text) : text[i].k # "blank"}
    IN IF inked = {} THEN << >>
       ELSE SubSeq(text, CHOOSE i \in inked : \A j \in inked : i <= j,
                         CHOOSE i \in inked : \A j \in inked : j <= i)

\* Variant: the closing fence line is left in place.
CleanReplyKeepsClosingFence(response_text) ==
    LET cleaned_response == StripText(response_text)
    IN IF cleaned_response # << >> /\ cleaned_response[1].k = "fence"
          THEN Tail(cleaned_response)
          ELSE cleaned_response

\* synthesize, lines 153-162: a reply that starts with a fence loses its
\* first line, and its last line if that is a bare fence.
CleanReply(response_text) ==
    LET cleaned_response == StripText(response_text)
    IN IF cleaned_response # << >> /\ cleaned_response[1].k = "fence"
          THEN LET lines == Tail(cleaned_response)
               IN IF lines # << >> /\ lines[Len(lines)] = FenceLine("")
                     THEN SubSeq(lines, 1, Len(lines) - 1)
                     ELSE lines
          ELSE cleaned_response

PlannerError(kind) == [exc |-> "PlannerError", kind |-> kind, name |-> "", step_id |-> -1]
TypeError(kind) == [exc |-> "TypeError", kind |-> kind, name |-> "", step_id |-> -1]

\* json.loads: the lines, blank ones apart, must be the lines of one valid
\* document, all of them and in order.
JsonLoads(text) ==
    LET body == SelectSeq(text, LAMBDA line : line.k # "blank")
    IN IF /\ body # << >>
          /\ \A i \in 1..Len(body) : body[i] = JsonLine(body[1].doc, i, Len(body))
          /\ body[1].doc \in ValidDocs
          THEN [err |-> NoError, value |-> DocValue(body[1].doc)]
          ELSE [err |-> PlannerError("invalid JSON"), value |-> JNull]

\* "final_result" in parsed: key of a dict, element of a list, substring of
\* a string; TypeError for a number, a boolean or null.
HasSubstringFinalResult(x) == x \in {"final_result", "the final_result"}
InSupported(parsed) == parsed.t \in {"dict", "list", "str"}
FinalResultIn(parsed) ==
    CASE parsed.t = "dict" -> "final_result" \in DOMAIN parsed.d
      [] parsed.t = "list" ->
            \E i \in 1..Len(parsed.l) : parsed.l[i] = JStr("final_result")
      [] parsed.t = "str" -> HasSubstringFinalResult(parsed.s)
      [] OTHER -> FALSE

\* synthesize from the reply on (lines 152-197): the exception raised, or
\* the parsed value returned.
synthesize(response_text) ==
    LET loaded == JsonLoads(CleanReply(response_text))
        parsed == loaded.value
        Raise(e) == [err |-> e, parsed |-> JNull]
    IN IF loaded.err # NoError THEN Raise(loaded.err)
       ELSE IF ~InSupported(parsed) THEN Raise(TypeError("in"))
       ELSE IF ~FinalResultIn(parsed) THEN Raise(PlannerError("missing final_result"))
       ELSE IF parsed.t # "dict" THEN Raise(TypeError("subscript"))
       ELSE [err |-> NoError, parsed |-> parsed]

\* ------------------------------------------------- FinalResult.parse_obj
\* dict(v) as pydantic applies it to a value that is not a dict: an empty
\* list and an empty string give {} (the model has no list of pairs).
DictOf(v) ==
    CASE v.t = "dict" -> [ok |-> TRUE, d |-> v.d]
      [] v.t = "list" /\ v.l = << >> -> [ok |-> TRUE, d |-> NoFields]
      [] v.t = "str" /\ v.s = "" -> [ok |-> TRUE, d |-> NoFields]
      [] OTHER -> [ok |-> FALSE, d |-> NoFields]

FinalResultTypes == {JStr("text"), JStr("structured")}

\* FinalResult.parse_obj(obj): type: Literal["text", "structured"],
\* content: Dict[str, Any], both required.
parse_obj(obj) ==
    LET fields == DictOf(obj)
        Invalid == [err |-> ValidationError("final_result", "final_result", -1),
                    type |-> "", content |-> NoFields]
    IN IF ~fields.ok THEN Invalid
       ELSE IF "type" \notin DOMAIN fields.d \/ "content" \notin DOMAIN fields.d
          THEN Invalid
       ELSE IF fields.d.type \notin FinalResultTypes THEN Invalid
       ELSE IF ~DictOf(fields.d.content).ok THEN Invalid
       ELSE [err |-> NoError, type |-> fields.d.type.s,
             content |-> DictOf(fields.d.content).d]

\* execute, lines 68-70
SynthesisWarnings(synthesis) ==
    IF "warnings" \in DOMAIN synthesis.d /\ synthesis.d.warnings.t = "list"
        THEN [i \in 1..Len(synthesis.d.warnings.l) |-> synthesis.d.warnings.l[i].s]
        ELSE << >>

\* Replies of the completion service (LLMClient.complete returns the text
\* stripped): a document on one or two lines, bare or between fences.
Fenced(tag, text) == << FenceLine(tag) >> \o text \o << FenceLine("") >>
FenceTags == {"", "json"}
BareReplies == {JsonText(doc, parts) : doc \in Docs, parts \in 1..2}
RichReplies ==
    BareReplies
    \cup {Fenced(tag, text) : tag \in FenceTags, text \in BareReplies}
    \cup {<< FenceLine("json") >> \o JsonText(doc, 1) : doc \in Docs}
    \cup {<< FenceLine("json") >> \o JsonText(doc, 1) \o << FenceLine("json") >> :
              doc \in Docs}
    \cup {<< FenceLine("") , BlankLine >> \o JsonText(doc, 1)
              \o << BlankLine, FenceLine("") >> : doc \in Docs}
    \cup {<< ProseLine >> \o JsonText(doc, 1) : doc \in Docs}
    \cup {<< >>, << ProseLine >>, << FenceLine("") >>}
PlainReplies ==
    {JsonText("text", 1), Fenced("json", JsonText("structured", 2)),
     JsonText("no_result", 1), JsonText("bad_type", 1)}

\* ------------------------------------------------------- LLMPlanner.plan
\* payload["available_agents"]: the providers and operations the planning
\* request describes to the completion service.
Offer(name, actions) == [name |-> name, actions |-> actions]

\* Variant: the payload does not list JiraAgent's search_issues.
available_agents_short ==
    << Offer("GithubAgent", << "get_pr", "list_recent_commits", "get_file" >>),
       Offer("AWSAgent", << "list_s3_buckets", "describe_ec2_instances",
                            "get_s3_object_head" >>),
       Offer("JiraAgent", << "get_issue" >>),
       Offer("JenkinsAgent", << "trigger_provide_access" >>) >>

available_agents ==
    << Offer("GithubAgent", << "get_pr", "list_recent_commits", "get_file" >>),
       Offer("AWSAgent", << "list_s3_buckets", "describe_ec2_instances",
                            "get_s3_object_head" >>),
       Offer("JiraAgent", << "get_issue", "search_issues" >>),
       Offer("JenkinsAgent", << "trigger_provide_access" >>) >>

\* The completion service's reply to the planning call: the serialization of
\* a JSON value, whole or cut short, bare or inside a markdown fence.
PlanText(value) == [value |-> value, complete |-> TRUE, fenced |-> FALSE]
CutShort(text) == [text EXCEPT !.complete = FALSE]
InFence(text) == [text EXCEPT !.fenced = TRUE]

\* json.loads(response_text), line 87: plan does not strip a fence.
json_loads(text) ==
    IF text.complete /\ ~text.fenced
        THEN [err |-> NoError, value |-> text.value]
        ELSE [err |-> PlannerError("invalid JSON"), value |-> JNull]

PlanFields == {"step_id", "agent", "action", "args"}

\* lines 92-95: parsed.get("plan") of an object, the value itself otherwise.
PlanOf(parsed) ==
    IF parsed.t = "dict"
        THEN IF "plan" \in DOMAIN parsed.d THEN parsed.d.plan ELSE JNull
        ELSE parsed

\* lines 100-105: the first element that is no object or lacks a field.
BadElement(element) == element.t # "dict" \/ ~(PlanFields \subseteq DOMAIN element.d)
FaultyElements(elems) == {i \in 1..Len(elems) : BadElement(elems[i])}
FirstFaulty(elems) ==
    CHOOSE i \in FaultyElements(elems) : \A j \in FaultyElements(elems) : i <= j

\* Variant: elements that fail the check are left out of the plan.
plan_best_effort(response_text) ==
    LET loaded == json_loads(response_text)
        plan_value == PlanOf(loaded.value)
    IN IF loaded.err # NoError
          THEN [err |-> loaded.err, plan |-> << >>]
       ELSE IF plan_value.t # "list"
          THEN [err |-> PlannerError("must be a list of steps"), plan |-> << >>]
       ELSE LET kept == SelectSeq(plan_value.l, LAMBDA e : ~BadElement(e))
            IN [err |-> NoError, plan |-> [i \in 1..Len(kept) |-> kept[i].d]]

\* LLMPlanner.plan, lines 86-108, applied to the reply.  The plan returned
\* is the parsed list itself.
plan(response_text) ==
    LET loaded == json_loads(response_text)
        plan_value == PlanOf(loaded.value)
    IN IF loaded.err # NoError
          THEN [err |-> loaded.err, plan |-> << >>]
       ELSE IF plan_value.t # "list"
          THEN [err |-> PlannerError("must be a list of steps"), plan |-> << >>]
       ELSE IF FaultyElements(plan_value.l) # {}
          THEN LET index == FirstFaulty(plan_value.l)
               IN [err |-> PlannerError(IF plan_value.l[index].t # "dict"
                                           THEN "must be an object"
                                           ELSE "missing field"),
                   plan |-> << >>]
       ELSE [err |-> NoError,
             plan |-> [i \in 1..Len(plan_value.l) |-> plan_value.l[i].d]]

\* The reply that is the JSON array of the raw steps, and the reply that is
\* an object holding that array in its `plan` field.
Objects(raw_steps) == [i \in 1..Len(raw_steps) |-> JDict(raw_steps[i])]
ArrayText(raw_steps) == PlanText(JList(Objects(raw_steps)))
ObjectText(raw_steps) == PlanText(JDict([plan |-> JList(Objects(raw_steps))]))
BrokenText == CutShort(ArrayText(<< >>))

\* Replies of every shape: arrays and objects of zero to two steps, whole,
\* cut short or fenced; objects without a `plan` field or with one that is
\* no array; values that are neither; arrays with an element that is no
\* object or that lacks one of the four fields or has a fifth.
ReplySteps == {RawStep(0, Call("AWSAgent", "list_s3_buckets", EmptyArgs)),
               RawStep(1, Call("JiraAgent", "search_issues", GoodSearch))}
ReplyPlans ==
    {<< >>} \cup {<< a >> : a \in ReplySteps}
    \cup {<< a, b >> : a \in ReplySteps, b \in ReplySteps}
Lacking(raw_step) == {Drop(raw_step, field) : field \in PlanFields}
OddElements ==
    {JNum(5), JStr("step_id"), JNull, JList(<< >>), JDict(NoFields)}
    \cup UNION {{JDict(d) : d \in Lacking(s)} : s \in ReplySteps}
    \cup {JDict(Put(s, "note", StrV("x"))) : s \in ReplySteps}
OddArrays ==
    {JList(<< e >>) : e \in OddElements}
    \cup {JList(<< JDict(s), e >>) : s \in ReplySteps, e \in OddElements}
    \cup {JList(<< e, JDict(s) >>) : s \in ReplySteps, e \in OddElements}
RichPlanTexts ==
    UNION {{ArrayText(p), ObjectText(p), CutShort(ArrayText(p)), CutShort(ObjectText(p)),
            InFence(ArrayText(p)), InFence(ObjectText(p)),
            PlanText(JDict([steps |-> JList(Objects(p))])),
            PlanText(JDict([plan |-> JList(Objects(p)), note |-> JStr("x")]))} :
           p \in ReplyPlans}
    \cup {PlanText(v) : v \in OddArrays}
    \cup {PlanText(JDict([plan |-> v])) : v \in OddArrays}
    \cup {PlanText(v) : v \in {JNum(5), JStr("plan"), JNull, JDict(NoFields),
                               JDict([plan |-> JNull]), JDict([plan |-> JStr("x")]),
                               JDict([plan |-> JDict(NoFields)])}}

\* Replies to the planning call: the array of each of the plans, and one
\* reply that is no JSON.
PlanTexts(plans) == {ArrayText(raw_steps) : raw_steps \in plans} \cup {BrokenText}

\* ------------------------------------------------------- TaskOrchestrator
VARIABLES
    pc,             \* stage of the execute run
    agents,         \* names in the injected provider map
    plan_calls,     \* calls of planner.plan
    plan_text,      \* the completion service's reply to the planning call
    raw_plan,       \* the planner's reply
    vres,           \* what validator.validate did with raw_plan
    plan_steps,     \* the validated plan
    step_index,     \* position of the `for step in plan_steps` loop
    trace_entries,
    warnings,
    attempted,      \* positions of the steps _execute_step was called for
    invoked,        \* provider operations called so far, with their arguments
    step_results,   \* what the operations that returned have returned
    synth_calls,    \* calls of planner.synthesize
    prepared_trace, \* the trace planner.synthesize sends to the completion service
    response_text,  \* the completion service's reply to the synthesis call
    synthesis,      \* what planner.synthesize did with it
    save_calls,     \* calls of save_trace
    saved,          \* what save_trace was given, and what became of it
    failed_in,      \* stage in which the run failed
    raised,         \* exception that left execute
    exc_trace_entry, \* its trace_entry attribute: << >> for None, else << entry >>
    exc_cause,      \* the AgentError it was raised from: << >> or << error >>
    response,       \* the TaskResponse returned
    held,           \* raw plans held by the callers of the shared PlanValidator
    calls,          \* the validate calls made on it so far
    requests,       \* the execute calls running on the shared collaborators
    semaphore,      \* the planner's _semaphore
    allowed_actions, \* the registry object ALLOWED_ACTIONS
    onboard         \* the execute_onboard_flow task that calls execute

\* State outside one execute run.
concurrent == << requests, semaphore, allowed_actions >>
shared_vars == << held, calls, concurrent, onboard >>

\* State of one execute run, by what writes it.
asked == << plan_calls, plan_text >>
planned == << asked, raw_plan, vres, plan_steps >>
executed == << trace_entries, attempted, invoked, step_results >>
synthesized == << synth_calls, prepared_trace, response_text, synthesis >>
failure == << failed_in, raised, exc_trace_entry, exc_cause >>
returned == << save_calls, saved, response >>
execute_vars == << pc, agents, planned, step_index, executed, warnings, synthesized,
                   failure, returned >>

vars == << execute_vars, shared_vars >>

NotValidated == [err |-> NoError, at |-> 0, steps |-> << >>, arg_checked |-> {}]
NotSynthesized == [err |-> NoError, parsed |-> JNull]
NoFinalResult == [type |-> "", content |-> NoFields]
NoResponse ==
    [returned |-> FALSE, plan |-> << >>, trace |-> << >>,
     final_result |-> NoFinalResult, warnings |-> << >>]

\* _cached_agents: GithubAgent, AWSAgent and JenkinsAgent are always put in
\* the map, JiraAgent only when it is configured.
AgentMaps == {{"GithubAgent", "AWSAgent", "JenkinsAgent"},
              {"GithubAgent", "AWSAgent", "JenkinsAgent", "JiraAgent"}}

\* Texts.  A text is known by what it is a text of, by how many of its
\* leading characters are kept and by whether the truncation marker follows.
Text(of, chars) == [of |-> of, chars |-> chars, marker |-> FALSE]
TRUNCATED == 15     \* len("...TRUNCATED...")
TextLen(text) == text.chars + (IF text.marker THEN TRUNCATED ELSE 0)

\* text[:limit] for a limit below len(text): a prefix of the text, or all of
\* it and the first characters of its marker (part says how many).
Slice(text, limit) ==
    IF limit <= text.chars
        THEN Text(text.of, limit)
        ELSE [of |-> text.of, chars |-> text.chars, marker |-> FALSE,
              part |-> limit - text.chars]
Marked(text) ==
    [x \in DOMAIN text |-> IF x = "marker" THEN TRUE ELSE text[x]]

\* LLMPlanner._truncate_text
truncate_text(text, limit) ==
    IF TextLen(text) <= limit
        THEN << text, FALSE >>
        ELSE << Marked(Slice(text, limit)), TRUE >>

\* Variant: the flag of the entry is replaced by that of the re-truncation.
PreparedFlagOfCutOnly(entry, limit) ==
    LET cut == truncate_text(entry.response_summary, limit)
    IN [step_id |-> entry.step_id, agent |-> entry.agent, action |-> entry.action,
        response_summary |-> cut[1], truncated |-> cut[2],
        duration_ms |-> entry.duration_ms]

\* One record of LLMPlanner._prepare_trace.
Prepared(entry, limit) ==
    LET cut == truncate_text(entry.response_summary, limit)
    IN [step_id |-> entry.step_id, agent |-> entry.agent, action |-> entry.action,
        response_summary |-> cut[1], truncated |-> cut[2] \/ entry.truncated,
        duration_ms |-> entry.duration_ms]
PrepareLimit == 1200
prepare_trace(trace) == [i \in 1..Len(trace) |-> Prepared(trace[i], PrepareLimit)]

\* Payloads a provider operation returns: None, a value json.dumps can
\* serialize (default=str) and one it cannot; size is the length of the
\* serialization, or of str(data) for the last.
Payload(kind, size) == [kind |-> kind, size |-> size]
NonePayload == Payload("None", 0)

\* _summarize_response, lines 200-203
Serialized(data) ==
    CASE data.kind = "None" -> Text("{}", 2)
      [] data.kind = "json" -> Text("json.dumps(data)", data.size)
      [] OTHER -> Text("str(data)", data.size)

\* Variant: a serialization of exactly `limit` characters is cut as well.
summarize_response_exclusive(data, limit) ==
    LET serialized == Serialized(data)
    IN IF serialized.chars < limit
          THEN << serialized, FALSE >>
          ELSE << [serialized EXCEPT !.chars = limit, !.marker = TRUE], TRUE >>

\* _summarize_response, lines 204-206: serialized[:limit] + "...TRUNCATED..."
summarize_response(data, limit) ==
    LET serialized == Serialized(data)
    IN IF serialized.chars <= limit
          THEN << serialized, FALSE >>
          ELSE << [serialized EXCEPT !.chars = limit, !.marker = TRUE], TRUE >>

SummaryLimit == 1200

\* What a provider operation can do when it returns, as lines 117-124 read
\* it: an AgentResponse gives data, truncated and warnings, any other value is
\* the data itself; duration_ms is what _calculate_duration_ms measures.
AgentResponse(data, truncated, step_warnings, duration_ms) ==
    [kind |-> "AgentResponse", data |-> data, truncated |-> truncated,
     warnings |-> step_warnings, duration_ms |-> duration_ms]
PlainValue(data, duration_ms) ==
    [kind |-> "plain", data |-> data, truncated |-> FALSE, warnings |-> << >>,
     duration_ms |-> duration_ms]

PlainResponse == PlainValue(Payload("json", 2), 0)
AgentResponses == {AgentResponse(Payload("json", 2), FALSE, << >>, 0),
                   AgentResponse(Payload("json", 2), TRUE, << "w" >>, 0),
                   PlainResponse}

\* What it can do when it raises AgentError: str(exc) and the duration.
AgentError(message, duration_ms) == [message |-> message, duration_ms |-> duration_ms]
\* len(str(exc)): a provider's message can quote text of any length, an
\* argument of the step or the body of an HTTP error.
LongMessage == "quoted"
MessageLen(message) ==
    CASE message = "" -> 0
      [] message = LongMessage -> SummaryLimit + TRUNCATED + 1
      [] OTHER -> 4
AgentErrors == {AgentError("boom", 0)}

\* The same with payloads on both sides of the summary limit, provider
\* flags, warnings and durations.
Durations == {0, 7}
RichResponses ==
    {AgentResponse(r[1], r[2], r[3], ms) :
        r \in {<< Payload("json", SummaryLimit), FALSE, << >> >>,
               << Payload("json", SummaryLimit + 1), FALSE, << "w" >> >>,
               << Payload("json", 2), TRUE, << "w" >> >>,
               << NonePayload, FALSE, << >> >>},
        ms \in Durations}
    \cup {PlainValue(data, ms) :
        data \in {Payload("json", SummaryLimit - 1), Payload("json", SummaryLimit),
                  Payload("json", SummaryLimit + 1), Payload("other", SummaryLimit + 1),
                  Payload("other", 2), NonePayload},
        ms \in Durations}
RichErrors ==
    {AgentError(message, ms) : message \in {"boom", "", LongMessage}, ms \in Durations}

TaskExecutionError(message) ==
    [exc |-> "TaskExecutionError", kind |-> message, name |-> "", step_id |-> -1]
OtherException == [exc |-> "Exception", kind |-> "provider", name |-> "", step_id |-> -1]

Invocation(step) == [agent |-> step.agent, action |-> step.action, args |-> step.args]

\* The TraceEntry built after a successful call (outcome is a history field:
\* which of the two constructions of _execute_step produced the entry).
SuccessEntry(step, result) ==
    LET summary == summarize_response(result.data, SummaryLimit)
    IN [step_id |-> step.step_id, agent |-> step.agent, action |-> step.action,
        request |-> step.args, response_summary |-> summary[1],
        duration_ms |-> result.duration_ms,
        truncated |-> result.truncated \/ summary[2],
        warnings |-> result.warnings,
        outcome |-> "success"]

\* The TraceEntry built in `except AgentError`.
FailureEntry(step, error) ==
    [step_id |-> step.step_id, agent |-> step.agent, action |-> step.action,
     request |-> step.args,
     response_summary |-> Text(error.message, MessageLen(error.message)),
     duration_ms |-> error.duration_ms,
     truncated |-> FALSE, warnings |-> << error.message >>,
     outcome |-> "failure"]

\* get_plan_validator: one PlanValidator for the process; nothing has been
\* validated yet.
NoPlan == << >>
Callers == {"a", "b"}
ValidatorUnused ==
    /\ held = [c \in Callers |-> NoPlan]
    /\ calls = << >>

\* execute has been called and has not started planning.
ExecuteStarted ==
    /\ pc = "Planning"
    /\ agents \in AgentMaps
    /\ plan_calls = 0
    /\ plan_text = << >>
    /\ raw_plan = << >>
    /\ vres = NotValidated
    /\ plan_steps = << >>
    /\ step_index = 0
    /\ trace_entries = << >>
    /\ warnings = << >>
    /\ attempted = << >>
    /\ invoked = << >>
    /\ step_results = << >>
    /\ synth_calls = 0
    /\ prepared_trace = << >>
    /\ response_text = << >>
    /\ synthesis = NotSynthesized
    /\ save_calls = 0
    /\ saved = << >>
    /\ failed_in = "none"
    /\ raised = NoError
    /\ exc_trace_entry = << >>
    /\ exc_cause = << >>
    /\ response = NoResponse

\* LLMPlanner.__init__: AsyncSemaphore(value=1), an asyncio.Semaphore.  Its
\* waiters are kept in arrival order; woken are the waiters whose future has
\* been completed and whose task has not run yet.  handoff tells which
\* asyncio the build runs on: one whose release gives the permit to the
\* waiter it wakes, or one whose woken waiter takes the permit itself.
GateWidth == 1

\* Variant: the gate lets two calls in.
SemaphoreOfTwo(handoff) ==
    [handoff |-> handoff, value |-> GateWidth + 1, waiters |-> << >>, woken |-> {}]

Semaphore(handoff) ==
    [handoff |-> handoff, value |-> GateWidth, waiters |-> << >>, woken |-> {}]

\* execute_onboard_flow before it is scheduled: slept is the number of
\* asyncio.sleep calls that have ended, submitted the TaskRequests given to
\* orchestrator.execute, email_task how the first of them ended, user what
\* the lookup in the user database gave.
NoUser == [kind |-> "none", emailid |-> "", access_items_status |-> << >>]
NotOnboarding ==
    [at |-> "not scheduled", slept |-> 0, submitted |-> << >>,
     email_task |-> "none", user |-> NoUser, ended |-> "none"]

\* No execute call runs concurrently with the run examined, and the run is
\* not one of an onboarding flow.
NoRequests ==
    /\ onboard = NotOnboarding
    /\ requests = << >>
    /\ semaphore = Semaphore(TRUE)
    /\ allowed_actions = ALLOWED_ACTIONS

Init == ExecuteStarted /\ ValidatorUnused /\ NoRequests

FailWith(stage, exception, trace_entry, cause) ==
    /\ pc' = "Failed"
    /\ failed_in' = stage
    /\ raised' = exception
    /\ exc_trace_entry' = trace_entry
    /\ exc_cause' = cause

Fail(stage, exception) == FailWith(stage, exception, << >>, << >>)

\* The call planner.plan(...) of _generate_plan, answered with `reply`.
PlanCalled(reply) ==
    /\ plan_calls' = plan_calls + 1
    /\ plan_text' = reply

\* _generate_plan: planner.plan returns a raw plan ...
PlanReturned(texts) ==
    /\ pc = "Planning"
    /\ \E reply \in texts :
          /\ PlanCalled(reply)
          /\ plan(reply).err = NoError
          /\ raw_plan' = plan(reply).plan
    /\ pc' = "Validating"
    /\ UNCHANGED << shared_vars, agents, vres, plan_steps, step_index, executed,
                    warnings, synthesized, failure, returned >>

\* Variant: after a first reply that is no plan the planner is asked again.
PlanFailedAskedAgain(texts) ==
    /\ pc = "Planning"
    /\ \E reply \in texts :
          /\ plan_calls' = plan_calls + 1
          /\ plan_text' = reply
          /\ plan(reply).err # NoError
    /\ IF plan_calls = 0
          THEN UNCHANGED << pc, failure >>
          ELSE /\ pc' = "Failed"
               /\ failed_in' = "Planning"
               /\ raised' = [exc |-> "TaskExecutionError",
                             kind |-> "Planning step failed.",
                             name |-> "", step_id |-> -1]
               /\ UNCHANGED << exc_trace_entry, exc_cause >>
    /\ UNCHANGED << shared_vars, agents, raw_plan, vres, plan_steps, step_index,
                    executed, warnings, synthesized, returned >>

\* ... or raises PlannerError, rethrown as TaskExecutionError.
PlanFailed(texts) ==
    /\ pc = "Planning"
    /\ \E reply \in texts :
          /\ PlanCalled(reply)
          /\ plan(reply).err # NoError
          /\ Fail("Planning",
                  IF plan(reply).err.exc = "PlannerError"
                     THEN TaskExecutionError("Planning step failed.")
                     ELSE plan(reply).err)
    /\ UNCHANGED << shared_vars, agents, raw_plan, vres, plan_steps, step_index,
                    executed, warnings, synthesized, returned >>

\* Variant: a rejected plan is treated as an empty validated plan.
ValidatePlanKeepsGoing ==
    /\ pc = "Validating"
    /\ vres' = validate(raw_plan)
    /\ plan_steps' = vres'.steps
    /\ step_index' = 1
    /\ pc' = IF Len(vres'.steps) = 0 THEN "Synthesizing" ELSE "Executing"
    /\ UNCHANGED << shared_vars, agents, asked, raw_plan, executed, warnings,
                    synthesized, failure, returned >>

\* execute, lines 46-52: validator.validate(raw_plan).  PlanValidationError
\* is rethrown as TaskExecutionError; any other exception is not caught.
ValidatePlan ==
    /\ pc = "Validating"
    /\ LET result == validate(raw_plan)
       IN /\ vres' = result
          /\ IF result.err = NoError
                THEN /\ plan_steps' = result.steps
                     /\ step_index' = 1
                     /\ pc' = IF Len(result.steps) = 0 THEN "Synthesizing"
                                                       ELSE "Executing"
                     /\ UNCHANGED failure
                ELSE /\ Fail("Validating",
                             IF result.err.exc = "PlanValidationError"
                                THEN TaskExecutionError("Plan validation failed.")
                                ELSE result.err)
                     /\ UNCHANGED << plan_steps, step_index >>
    /\ UNCHANGED << shared_vars, agents, asked, raw_plan, executed, warnings,
                    synthesized, returned >>

\* Variant: the loop takes the steps by ascending step_id.
CurrentStepByStepId ==
    CHOOSE step \in {plan_steps[i] : i \in 1..Len(plan_steps)} :
        Cardinality({j \in 1..Len(plan_steps) :
                        plan_steps[j].step_id < step.step_id}) = step_index - 1

\* `for step in plan_steps`: the step the loop is at.
CurrentStep == plan_steps[step_index]

\* Variant: the loop ends after the step that succeeded.
AdvanceEndsLoop ==
    /\ step_index' = step_index + 1
    /\ pc' = "Synthesizing"

\* Variant: the run can be stopped between two steps.
AdvanceOrStop ==
    /\ step_index' = step_index + 1
    /\ pc' = IF step_index = Len(plan_steps) THEN "Synthesizing" ELSE "Stopped"

\* The loop moves to the next step, or ends after the last.
Advance ==
    /\ step_index' = step_index + 1
    /\ pc' = IF step_index = Len(plan_steps) THEN "Synthesizing" ELSE "Executing"

\* Variant: a missing provider is a warning and the loop goes on.
StepUnavailableSkipped ==
    /\ pc = "Executing"
    /\ plan_steps[step_index].agent \notin agents
    /\ attempted' = Append(attempted, step_index)
    /\ warnings' = Append(warnings, "not available")
    /\ step_index' = step_index + 1
    /\ pc' = IF step_index = Len(plan_steps) THEN "Synthesizing" ELSE "Executing"
    /\ UNCHANGED << shared_vars, agents, planned, trace_entries, invoked,
                    step_results, synthesized, failure, returned >>

\* _execute_step: the provider is not in the map (the operation always is a
\* member of a resolved provider: every registry operation is a method of
\* its agent class).
StepUnavailable ==
    /\ pc = "Executing"
    /\ CurrentStep.agent \notin agents
    /\ attempted' = Append(attempted, step_index)
    /\ warnings' = Append(warnings, "not available")
    /\ Fail("Executing", TaskExecutionError("Agent is not available."))
    /\ UNCHANGED << shared_vars, agents, planned, step_index, trace_entries, invoked,
                    step_results, synthesized, returned >>

\* Variant: the entry of a step that succeeded is not appended.
StepSucceededUntraced(results) ==
    /\ pc = "Executing"
    /\ plan_steps[step_index].agent \in agents
    /\ \E result \in results :
          /\ step_results' = Append(step_results, result)
          /\ warnings' = warnings \o result.warnings
    /\ attempted' = Append(attempted, step_index)
    /\ invoked' = Append(invoked, Invocation(plan_steps[step_index]))
    /\ step_index' = step_index + 1
    /\ pc' = IF step_index = Len(plan_steps) THEN "Synthesizing" ELSE "Executing"
    /\ UNCHANGED << shared_vars, agents, planned, trace_entries, synthesized, failure,
                    returned >>

\* _execute_step returns: the operation was called and returned.
StepSucceeded(results) ==
    /\ pc = "Executing"
    /\ CurrentStep.agent \in agents
    /\ \E result \in results :
          /\ step_results' = Append(step_results, result)
          /\ trace_entries' = Append(trace_entries, SuccessEntry(CurrentStep, result))
          /\ warnings' = warnings \o result.warnings
    /\ attempted' = Append(attempted, step_index)
    /\ invoked' = Append(invoked, Invocation(CurrentStep))
    /\ Advance
    /\ UNCHANGED << shared_vars, agents, planned, synthesized, failure, returned >>

\* Variant: the failure entry is recorded and the loop goes on.
StepAgentErrorContinues(errors) ==
    /\ pc = "Executing"
    /\ plan_steps[step_index].agent \in agents
    /\ attempted' = Append(attempted, step_index)
    /\ invoked' = Append(invoked, Invocation(plan_steps[step_index]))
    /\ \E error \in errors :
          trace_entries' = Append(trace_entries,
                                  FailureEntry(plan_steps[step_index], error))
    /\ warnings' = Append(warnings, "step failed")
    /\ step_index' = step_index + 1
    /\ pc' = IF step_index = Len(plan_steps) THEN "Synthesizing" ELSE "Executing"
    /\ UNCHANGED << shared_vars, agents, planned, step_results, synthesized, failure,
                    returned >>

\* Variant: execute does not append the entry the error carries.
StepAgentErrorUntraced(errors) ==
    /\ pc = "Executing"
    /\ plan_steps[step_index].agent \in agents
    /\ attempted' = Append(attempted, step_index)
    /\ invoked' = Append(invoked, Invocation(plan_steps[step_index]))
    /\ warnings' = Append(warnings, "step failed")
    /\ \E error \in errors :
          /\ exc_trace_entry' = << FailureEntry(plan_steps[step_index], error) >>
          /\ exc_cause' = << error >>
    /\ pc' = "Failed"
    /\ failed_in' = "Executing"
    /\ raised' = [exc |-> "TaskExecutionError", kind |-> "Agent step failed.",
                  name |-> "", step_id |-> -1]
    /\ UNCHANGED << shared_vars, agents, planned, step_index, trace_entries,
                    step_results, synthesized, returned >>

\* Variant: the entry is built from the step alone, the error message lost.
StepAgentErrorNoMessage(errors) ==
    /\ pc = "Executing"
    /\ plan_steps[step_index].agent \in agents
    /\ attempted' = Append(attempted, step_index)
    /\ invoked' = Append(invoked, Invocation(plan_steps[step_index]))
    /\ warnings' = Append(warnings, "step failed")
    /\ \E error \in errors :
          LET blank == [message |-> "", duration_ms |-> error.duration_ms]
              trace_entry == [FailureEntry(plan_steps[step_index], blank)
                                  EXCEPT !.warnings = << >>]
          IN /\ trace_entries' = Append(trace_entries, trace_entry)
             /\ exc_trace_entry' = << trace_entry >>
             /\ exc_cause' = << error >>
    /\ pc' = "Failed"
    /\ failed_in' = "Executing"
    /\ raised' = [exc |-> "TaskExecutionError", kind |-> "Agent step failed.",
                  name |-> "", step_id |-> -1]
    /\ UNCHANGED << shared_vars, agents, planned, step_index, step_results,
                    synthesized, returned >>

\* The operation raised AgentError: _execute_step raises TaskExecutionError
\* carrying the entry, execute appends it and re-raises.
StepAgentError(errors) ==
    /\ pc = "Executing"
    /\ CurrentStep.agent \in agents
    /\ attempted' = Append(attempted, step_index)
    /\ invoked' = Append(invoked, Invocation(CurrentStep))
    /\ warnings' = Append(warnings, "step failed")
    /\ \E error \in errors :
          LET trace_entry == FailureEntry(CurrentStep, error)
          IN /\ trace_entries' = Append(trace_entries, trace_entry)
             /\ FailWith("Executing", TaskExecutionError("Agent step failed."),
                         << trace_entry >>, << error >>)
    /\ UNCHANGED << shared_vars, agents, planned, step_index, step_results,
                    synthesized, returned >>

\* Variant: _execute_step catches every exception of the operation as it
\* catches AgentError.
StepOtherExceptionConverted ==
    /\ pc = "Executing"
    /\ CurrentStep.agent \in agents
    /\ attempted' = Append(attempted, step_index)
    /\ invoked' = Append(invoked, Invocation(CurrentStep))
    /\ warnings' = Append(warnings, "step failed")
    /\ LET trace_entry == FailureEntry(CurrentStep, AgentError("provider", 0))
       IN /\ trace_entries' = Append(trace_entries, trace_entry)
          /\ FailWith("Executing", TaskExecutionError("Agent step failed."),
                      << trace_entry >>, << OtherException >>)
    /\ UNCHANGED << shared_vars, agents, planned, step_index, step_results,
                    synthesized, returned >>

\* The operation raised something that is not an AgentError: neither
\* _execute_step nor execute catches it.
StepOtherException ==
    /\ pc = "Executing"
    /\ CurrentStep.agent \in agents
    /\ attempted' = Append(attempted, step_index)
    /\ invoked' = Append(invoked, Invocation(CurrentStep))
    /\ Fail("Executing", OtherException)
    /\ UNCHANGED << shared_vars, agents, planned, step_index, trace_entries, warnings,
                    step_results, synthesized, returned >>

\* The call planner.synthesize(...) of _synthesize, answered with `reply`.
SynthesizeCalled(reply) ==
    /\ synth_calls' = synth_calls + 1
    /\ prepared_trace' = prepare_trace(trace_entries)
    /\ response_text' = reply
    /\ synthesis' = synthesize(reply)

\* planner.synthesize raises: PlannerError is rethrown as TaskExecutionError,
\* anything else is not caught.
SynthesisFailed(replies) ==
    /\ pc = "Synthesizing"
    /\ \E reply \in replies :
          /\ SynthesizeCalled(reply)
          /\ synthesize(reply).err # NoError
          /\ Fail("Synthesizing",
                  IF synthesize(reply).err.exc = "PlannerError"
                     THEN TaskExecutionError("Failed to synthesize final result.")
                     ELSE synthesize(reply).err)
    /\ UNCHANGED << shared_vars, agents, planned, step_index, executed, warnings,
                    returned >>

\* FinalResult.parse_obj rejects the synthesized final_result.
SynthesisBadResult(replies) ==
    /\ pc = "Synthesizing"
    /\ \E reply \in replies :
          /\ SynthesizeCalled(reply)
          /\ synthesize(reply).err = NoError
          /\ parse_obj(synthesize(reply).parsed.d.final_result).err # NoError
          /\ Fail("Synthesizing",
                  parse_obj(synthesize(reply).parsed.d.final_result).err)
    /\ UNCHANGED << shared_vars, agents, planned, step_index, executed, warnings,
                    returned >>

\* What save_trace can do with the response: write the file, fail inside
\* its own try (logged at lines 55-57) or raise (caught at line 84).
SinkOutcomes == {"written", "not written", "raised"}

\* Variant: an exception of save_trace leaves execute.
CompleteUnlessSinkRaises(replies) ==
    /\ pc = "Synthesizing"
    /\ \E reply \in replies :
          LET final_result == parse_obj(synthesize(reply).parsed.d.final_result)
              assembled == [returned |-> TRUE, plan |-> plan_steps,
                            trace |-> trace_entries,
                            final_result |-> [type |-> final_result.type,
                                              content |-> final_result.content],
                            warnings |-> warnings']
          IN /\ SynthesizeCalled(reply)
             /\ synthesize(reply).err = NoError
             /\ final_result.err = NoError
             /\ warnings' = warnings \o SynthesisWarnings(synthesize(reply).parsed)
             /\ \E outcome \in SinkOutcomes :
                   /\ saved' = Append(saved, [response |-> assembled,
                                              outcome |-> outcome])
                   /\ IF outcome = "raised"
                         THEN /\ pc' = "Failed"
                              /\ failed_in' = "Complete"
                              /\ raised' = [exc |-> "Exception", kind |-> "sink",
                                            name |-> "", step_id |-> -1]
                              /\ UNCHANGED << response, exc_trace_entry, exc_cause >>
                         ELSE /\ pc' = "Complete"
                              /\ response' = assembled
                              /\ UNCHANGED failure
    /\ save_calls' = save_calls + 1
    /\ UNCHANGED << shared_vars, agents, planned, step_index, executed >>

\* Synthesis succeeds: the TaskResponse is assembled, handed to save_trace
\* (whose failure is swallowed) and returned.
Complete(replies) ==
    /\ pc = "Synthesizing"
    /\ \E reply \in replies :
          LET final_result == parse_obj(synthesize(reply).parsed.d.final_result)
          IN /\ SynthesizeCalled(reply)
             /\ synthesize(reply).err = NoError
             /\ final_result.err = NoError
             /\ warnings' = warnings \o SynthesisWarnings(synthesize(reply).parsed)
             /\ response' = [returned |-> TRUE, plan |-> plan_steps,
                             trace |-> trace_entries,
                             final_result |-> [type |-> final_result.type,
                                               content |-> final_result.content],
                             warnings |-> warnings']
    /\ save_calls' = save_calls + 1
    /\ \E outcome \in SinkOutcomes :
          saved' = Append(saved, [response |-> response', outcome |-> outcome])
    /\ pc' = "Complete"
    /\ UNCHANGED << shared_vars, agents, planned, step_index, executed, failure >>

\* One execute run, for the completion service's replies to the planning
\* call in texts, the outcomes of a provider operation in results and errors,
\* and the completion service's replies to the synthesis call in replies.
Run(texts, results, errors, replies) ==
    \/ PlanReturned(texts)
    \/ PlanFailed(texts)
    \/ ValidatePlan
    \/ StepUnavailable
    \/ StepSucceeded(results)
    \/ StepAgentError(errors)
    \/ StepOtherException
    \/ SynthesisFailed(replies)
    \/ SynthesisBadResult(replies)
    \/ Complete(replies)

\* The flow examined: plans of up to MaxSteps steps, a few provider results
\* and synthesis replies, both provider maps.
Next == Run(PlanTexts(PlansWith(OrchSteps)), AgentResponses, AgentErrors, PlainReplies)
Spec == Init /\ [][Next]_vars

\* Validation examined: the rich raw plans, one kind of provider result and
\* the provider map of a deployment without JiraAgent.
ValidationInit == Init /\ "JiraAgent" \notin agents
ValidationNext ==
    Run(PlanTexts(PlansWith(RichSteps)), {PlainResponse}, AgentErrors, PlainReplies)
ValidationSpec == ValidationInit /\ [][ValidationNext]_vars

\* Plans of one or two of the orchestrator's steps.
StepPlans ==
    LET steps == {RawStep(id, c) : id \in {0, 1}, c \in OrchCalls}
    IN {<< a >> : a \in steps} \cup {<< a, b >> : a \in steps, b \in steps}

\* Step execution examined: short plans, the rich provider outcomes.
ExecutionNext == Run(PlanTexts(StepPlans), RichResponses, RichErrors, PlainReplies)
ExecutionSpec == Init /\ [][ExecutionNext]_vars

\* Plans of at most two steps, of operations that take few arguments.
LiveCalls == {Call("JiraAgent", "search_issues", GoodSearch),
              Call("AWSAgent", "list_s3_buckets", EmptyArgs),
              Call("Nope", "x", EmptyArgs)}
LivePlans ==
    LET steps == {RawStep(id, c) : id \in {0, 1}, c \in LiveCalls}
    IN {<< >>} \cup {<< a >> : a \in steps} \cup {<< a, b >> : a \in steps, b \in steps}

\* A run of such a plan when every call made by execute returns or raises:
\* execute is one coroutine of straight-line code, which the event loop
\* resumes whenever the call it awaits has ended.
LiveNext == Run(PlanTexts(LivePlans), AgentResponses, AgentErrors, PlainReplies)
LiveSpec == Init /\ [][LiveNext]_vars /\ WF_vars(LiveNext)

\* Planning examined: the rich replies to the planning call.
PlanningNext == Run(RichPlanTexts, {PlainResponse}, AgentErrors, PlainReplies)
PlanningSpec == Init /\ [][PlanningNext]_vars

\* Synthesis examined: short plans, the rich replies.
SynthesisNext ==
    Run(PlanTexts(StepPlans), {PlainResponse}, AgentErrors, RichReplies)
SynthesisSpec == Init /\ [][SynthesisNext]_vars

\* ------------------------------------------------- the shared PlanValidator
\* Raw plans of one or two steps.
ShortPlans ==
    {<< r >> : r \in RichSteps \cup BasicSteps}
    \cup {<< b, r >> : b \in BasicSteps, r \in RichSteps}
    \cup {<< r, b >> : r \in RichSteps, b \in BasicSteps}

\* Raw plans of a second caller: accepted with a rewrite of the args,
\* accepted as it is, rejected.
OtherPlans ==
    {<< RawStep(0, Call("GithubAgent", "get_pr",
                        Put(Put(GoodPr, "number", FloatV(5, 0)), "token", StrV("x")))) >>,
     << RawStep(1, Call("AWSAgent", "list_s3_buckets", EmptyArgs)) >>,
     << RawStep(2, Call("GithubAgent", "delete_repo", EmptyArgs)) >>}

\* The raw plan as a validate call leaves it.  PlanStep(**raw_step) builds
\* the dict of its `args` field (Dict[str, Any]) anew from raw_step["args"];
\* the assignments and pops of _validate_args and _validate_jenkins_services
\* go to that dict, and validate writes to nothing else it was given.
InputAfterValidate(raw_steps) == raw_steps

ValidateRecord(caller, given, result) ==
    [caller |-> caller, given |-> given, err |-> result.err, at |-> result.at,
     steps |-> result.steps]

\* Variant: seen_ids belongs to the validator and outlives the call.
ValidateCallKeepsSeenIds ==
    /\ Len(calls) < MaxCalls
    /\ \E caller \in Callers :
          LET given == held[caller]
              kept == UNION {{calls[i].given[j].step_id :
                                  j \in 1..Len(calls[i].given)} : i \in 1..Len(calls)}
              result == ValidateFrom(given, 1, << >>, kept, {})
          IN /\ calls' = Append(calls, ValidateRecord(caller, given, result))
             /\ held' = [held EXCEPT ![caller] = InputAfterValidate(given)]
    /\ UNCHANGED << execute_vars, concurrent, onboard >>

\* One call validator.validate(plan) by one of the callers, on the raw plan
\* that caller holds.
ValidateCall ==
    /\ Len(calls) < MaxCalls
    /\ \E caller \in Callers :
          LET given == held[caller]
              result == validate(given)
          IN /\ calls' = Append(calls, ValidateRecord(caller, given, result))
             /\ held' = [held EXCEPT ![caller] = InputAfterValidate(given)]
    /\ UNCHANGED << execute_vars, concurrent, onboard >>

ValidatorInit ==
    /\ ExecuteStarted
    /\ "JiraAgent" \in agents
    /\ held \in {[a |-> p, b |-> q] : p \in ShortPlans, q \in OtherPlans}
    /\ calls = << >>
    /\ NoRequests
ValidatorNext == ValidateCall
ValidatorSpec == ValidatorInit /\ [][ValidatorNext]_vars

\* ------------------------------------------- concurrent execute calls
\* asyncio.Semaphore as AsyncSemaphore uses it (__aenter__ acquires,
\* __aexit__ releases whether or not the body raised).
locked(s) == s.value = 0 \/ (s.handoff /\ s.waiters # << >>)

wake_up_next(s) ==
    IF s.handoff
        THEN LET pending == SelectSeq(s.waiters, LAMBDA w : w \notin s.woken)
             IN IF pending = << >> THEN s
                ELSE [s EXCEPT !.value = @ - 1, !.woken = @ \cup {pending[1]}]
        ELSE IF s.waiters = << >> THEN s
             ELSE [s EXCEPT !.waiters = Tail(@), !.woken = @ \cup {Head(s.waiters)}]

release(s) == wake_up_next([s EXCEPT !.value = @ + 1])

\* acquire by a task that arrives at the gate: the permit, or a place among
\* the waiters.
acquire(s, r) ==
    IF locked(s)
        THEN [sem |-> [s EXCEPT !.waiters = Append(@, r)], acquired |-> FALSE]
        ELSE [sem |-> [s EXCEPT !.value = @ - 1], acquired |-> TRUE]

\* acquire resumed in a task that was woken.
acquire_resumed(s, r) ==
    IF s.handoff
        THEN LET left == [s EXCEPT !.waiters = SelectSeq(@, LAMBDA w : w # r),
                                   !.woken = @ \ {r}]
             IN [sem |-> IF left.value > 0 THEN wake_up_next(left) ELSE left,
                 acquired |-> TRUE]
        ELSE LET awake == [s EXCEPT !.woken = @ \ {r}]
             IN IF awake.value > 0
                   THEN [sem |-> [awake EXCEPT !.value = @ - 1], acquired |-> TRUE]
                   ELSE [sem |-> [awake EXCEPT !.waiters = Append(@, r)],
                         acquired |-> FALSE]

Requests == {"r1", "r2", "r3"}

\* What the collaborators answer to one request: the completion service to
\* the planning call, the provider operations to the steps in turn, the
\* completion service to the synthesis call.  A completion call can raise.
Reply(text) == [raises |-> FALSE, text |-> text]
CallRaises == [raises |-> TRUE, text |-> << >>]
CompletionError == [exc |-> "Exception", kind |-> "completion", name |-> "", step_id |-> -1]
Returned(result) == [kind |-> "returned", result |-> result, error |-> AgentError("", 0)]
Raised(error) == [kind |-> "AgentError", result |-> PlainResponse, error |-> error]
Script(plan_reply, outcomes, synthesis_reply) ==
    [plan_reply |-> plan_reply, outcomes |-> outcomes, synthesis_reply |-> synthesis_reply]

\* The scripts of request r; its steps, results and errors carry its name.
OwnStep(r, step_id) ==
    RawStep(step_id, Call("GithubAgent", "get_pr", Put(GoodPr, "owner", StrV(r))))
OwnResult(r) == AgentResponse(Payload("json", 2), FALSE, << r >>, 0)
Scripts(r) ==
    {Script(Reply(ArrayText(<< OwnStep(r, 1), OwnStep(r, 0) >>)),
            << Returned(OwnResult(r)), Returned(OwnResult(r)) >>,
            Reply(JsonText("structured", 2))),
     Script(Reply(ObjectText(<< OwnStep(r, 0), OwnStep(r, 1) >>)),
            << Returned(OwnResult(r)), Raised(AgentError(r, 0)) >>,
            Reply(JsonText("text", 1))),
     Script(Reply(ArrayText(<< OwnStep(r, 0) >>)),
            << Returned(OwnResult(r)) >>,
            Reply(JsonText("no_result", 1))),
     Script(Reply(ArrayText(<< OwnStep(r, 0) >>)), << Returned(OwnResult(r)) >>, CallRaises),
     Script(Reply(ArrayText(<< OwnStep(r, 0), OwnStep(r, 0) >>)), << >>,
            Reply(JsonText("text", 1))),
     Script(Reply(ArrayText(<< >>)), << >>, Reply(JsonText("text", 1))),
     Script(Reply(BrokenText), << >>, Reply(JsonText("text", 1))),
     Script(CallRaises, << >>, Reply(JsonText("text", 1)))}

\* The locals of one execute call and where the call stands: before its
\* first line ("start"), waiting at the gate or inside client.complete for
\* planning or synthesis, awaiting the operation of step idx ("step"),
\* returned ("done") or left by an exception ("failed").  met is a history
\* field: the calls that were under way when this one ran a piece of its code.
\* late tells that the call began what it awaits while a woken waiter had
\* not run yet: the event loop runs the tasks that are ready before it polls
\* for what the network and the worker threads have delivered, so the
\* waiter runs before the awaited result of a late call is taken up.
Started(script) ==
    [at |-> "start", script |-> script, plan_steps |-> << >>, idx |-> 0,
     trace |-> << >>, warnings |-> << >>, raised |-> NoError,
     exc_trace_entry |-> << >>, response |-> NoResponse, met |-> {},
     late |-> FALSE]

WaitAt(call) == IF call = "plan" THEN "plan_wait" ELSE "synth_wait"
CallAt(call) == IF call = "plan" THEN "plan_call" ELSE "synth_call"
InFlight == {r \in Requests : requests[r].at \in {"plan_call", "synth_call"}}
Waiting == {r \in Requests : requests[r].at \in {"plan_wait", "synth_wait"}}
UnderWay == {r \in Requests : requests[r].at \notin {"start", "done", "failed"}}

\* The code of request r ran up to its next suspension point or its end and
\* left its locals as req.
Ran(r, req) ==
    requests' = [requests EXCEPT ![r] =
                    [req EXCEPT !.met = @ \cup (UnderWay \ {r}),
                                !.late = semaphore'.woken # {}]]

\* `async with self._semaphore` reached by request r, whose locals are req.
Enter(r, req, s, call) ==
    LET got == acquire(s, r)
    IN /\ semaphore' = got.sem
       /\ Ran(r, [req EXCEPT !.at = IF got.acquired THEN CallAt(call)
                                                    ELSE WaitAt(call)])

\* An exception leaves execute.
Leave(r, req, exception, trace_entry) ==
    Ran(r, [req EXCEPT !.at = "failed", !.raised = exception,
                       !.exc_trace_entry = trace_entry])

\* The registry after a validate call: validate reads self.allowed_actions
\* and writes to the args of the PlanStep only.
RegistryAfterValidate(registry) == registry

\* execute starts: _generate_plan, planner.plan up to the gate.
ReqStart(r) ==
    /\ requests[r].at = "start"
    /\ Enter(r, requests[r], semaphore, "plan")
    /\ UNCHANGED << execute_vars, held, calls, onboard, allowed_actions >>

\* The task of a woken waiter runs.
ReqResumed(r) ==
    /\ r \in Waiting
    /\ r \in semaphore.woken
    /\ LET got == acquire_resumed(semaphore, r)
           call == IF requests[r].at = "plan_wait" THEN "plan" ELSE "synth"
           resumed == [requests[r] EXCEPT !.at = IF got.acquired THEN CallAt(call)
                                                                  ELSE WaitAt(call),
                                          !.met = @ \cup (UnderWay \ {r}),
                                          !.late = got.sem.woken # {}]
       IN /\ semaphore' = got.sem
          /\ requests' = [q \in Requests |->
                             IF q = r THEN resumed
                                      ELSE [requests[q] EXCEPT !.late = FALSE]]
    /\ UNCHANGED << execute_vars, held, calls, onboard, allowed_actions >>

\* The planning call ends: the gate is released, the reply parsed, the plan
\* validated; then the first step is called, or synthesize for no steps.
\* The reply of the completion service comes from the network: a woken
\* waiter runs before a call that was made after it was woken can end.
ReqPlanReplied(r) ==
    /\ requests[r].at = "plan_call"
    /\ ~requests[r].late
    /\ LET req == requests[r]
           released == release(semaphore)
           reply == req.script.plan_reply
           parsed == plan(reply.text)
           result == validate(parsed.plan)
       IN IF reply.raises
             THEN semaphore' = released /\ Leave(r, req, CompletionError, << >>)
          ELSE IF parsed.err # NoError
             THEN /\ semaphore' = released
                  /\ Leave(r, req, TaskExecutionError("Planning step failed."), << >>)
          ELSE IF result.err # NoError
             THEN /\ semaphore' = released
                  /\ Leave(r, req,
                           IF result.err.exc = "PlanValidationError"
                              THEN TaskExecutionError("Plan validation failed.")
                              ELSE result.err, << >>)
          ELSE IF result.steps = << >>
             THEN Enter(r, req, released, "synth")
          ELSE /\ semaphore' = released
               /\ Ran(r, [req EXCEPT !.at = "step", !.plan_steps = result.steps,
                                      !.idx = 1])
    /\ allowed_actions' = RegistryAfterValidate(allowed_actions)
    /\ UNCHANGED << execute_vars, held, calls, onboard >>

\* Variant: the trace list belongs to the orchestrator, one for all calls.
ReqStepReturnedSharedTrace(r) ==
    /\ requests[r].at = "step"
    /\ ~requests[r].late
    /\ requests[r].script.outcomes[requests[r].idx].kind = "returned"
    /\ LET req == requests[r]
           result == req.script.outcomes[req.idx].result
           trace_entry == SuccessEntry(req.plan_steps[req.idx], result)
           shared == [q \in Requests |->
                        [requests[q] EXCEPT !.trace = Append(@, trace_entry)]]
           after == [shared[r] EXCEPT !.warnings = @ \o result.warnings,
                                      !.met = @ \cup (UnderWay \ {r}),
                                      !.late = semaphore'.woken # {}]
       IN IF req.idx = Len(req.plan_steps)
             THEN LET got == acquire(semaphore, r)
                  IN /\ semaphore' = got.sem
                     /\ requests' = [shared EXCEPT ![r] =
                            [after EXCEPT !.at = IF got.acquired THEN "synth_call"
                                                                ELSE "synth_wait"]]
             ELSE /\ UNCHANGED semaphore
                  /\ requests' = [shared EXCEPT ![r] = [after EXCEPT !.idx = @ + 1]]
    /\ UNCHANGED << execute_vars, held, calls, onboard, allowed_actions >>

\* The operation of step idx returns: the entry is appended; then the next
\* step is called, or synthesize after the last.  Every operation that
\* returns a result awaits the network or a worker thread first.
ReqStepReturned(r) ==
    /\ requests[r].at = "step"
    /\ ~requests[r].late
    /\ requests[r].script.outcomes[requests[r].idx].kind = "returned"
    /\ LET req == requests[r]
           result == req.script.outcomes[req.idx].result
           trace_entry == SuccessEntry(req.plan_steps[req.idx], result)
           after == [req EXCEPT !.trace = Append(@, trace_entry),
                                !.warnings = @ \o result.warnings]
       IN IF req.idx = Len(req.plan_steps)
             THEN Enter(r, after, semaphore, "synth")
             ELSE /\ UNCHANGED semaphore
                  /\ Ran(r, [after EXCEPT !.idx = @ + 1])
    /\ UNCHANGED << execute_vars, held, calls, onboard, allowed_actions >>

\* The operation of step idx raises AgentError.
ReqStepFailed(r) ==
    /\ requests[r].at = "step"
    /\ requests[r].script.outcomes[requests[r].idx].kind = "AgentError"
    /\ UNCHANGED semaphore
    /\ LET req == requests[r]
           error == req.script.outcomes[req.idx].error
           trace_entry == FailureEntry(req.plan_steps[req.idx], error)
       IN Leave(r, [req EXCEPT !.trace = Append(@, trace_entry),
                               !.warnings = Append(@, "step failed")],
                TaskExecutionError("Agent step failed."), << trace_entry >>)
    /\ UNCHANGED << execute_vars, held, calls, onboard, allowed_actions >>

\* Variant: the gate is released when the synthesis call returns and kept
\* when it raises.
ReqSynthRepliedKeptOnRaise(r) ==
    /\ requests[r].at = "synth_call"
    /\ ~requests[r].late
    /\ semaphore' = IF requests[r].script.synthesis_reply.raises
                        THEN semaphore ELSE release(semaphore)
    /\ LET req == requests[r]
           reply == req.script.synthesis_reply
           parsed == synthesize(reply.text)
           final_result == parse_obj(parsed.parsed.d.final_result)
           all_warnings == req.warnings \o SynthesisWarnings(parsed.parsed)
       IN IF reply.raises
             THEN Leave(r, req, CompletionError, << >>)
          ELSE IF parsed.err # NoError
             THEN Leave(r, req,
                        IF parsed.err.exc = "PlannerError"
                           THEN TaskExecutionError("Failed to synthesize final result.")
                           ELSE parsed.err, << >>)
          ELSE IF final_result.err # NoError
             THEN Leave(r, req, final_result.err, << >>)
          ELSE Ran(r, [req EXCEPT !.at = "done", !.warnings = all_warnings,
                                  !.response =
                                      [returned |-> TRUE, plan |-> req.plan_steps,
                                       trace |-> req.trace,
                                       final_result |->
                                           [type |-> final_result.type,
                                            content |-> final_result.content],
                                       warnings |-> all_warnings]])
    /\ UNCHANGED << execute_vars, held, calls, onboard, allowed_actions >>

\* The synthesis call ends: the gate is released, the reply parsed, the
\* response built, saved and returned.
ReqSynthReplied(r) ==
    /\ requests[r].at = "synth_call"
    /\ ~requests[r].late
    /\ semaphore' = release(semaphore)
    /\ LET req == requests[r]
           reply == req.script.synthesis_reply
           parsed == synthesize(reply.text)
           final_result == parse_obj(parsed.parsed.d.final_result)
           all_warnings == req.warnings \o SynthesisWarnings(parsed.parsed)
       IN IF reply.raises
             THEN Leave(r, req, CompletionError, << >>)
          ELSE IF parsed.err # NoError
             THEN Leave(r, req,
                        IF parsed.err.exc = "PlannerError"
                           THEN TaskExecutionError("Failed to synthesize final result.")
                           ELSE parsed.err, << >>)
          ELSE IF final_result.err # NoError
             THEN Leave(r, req, final_result.err, << >>)
          ELSE Ran(r, [req EXCEPT !.at = "done", !.warnings = all_warnings,
                                  !.response =
                                      [returned |-> TRUE, plan |-> req.plan_steps,
                                       trace |-> req.trace,
                                       final_result |->
                                           [type |-> final_result.type,
                                            content |-> final_result.content],
                                       warnings |-> all_warnings]])
    /\ UNCHANGED << execute_vars, held, calls, onboard, allowed_actions >>

ConcurrentInit ==
    /\ ExecuteStarted
    /\ "JiraAgent" \in agents
    /\ ValidatorUnused
    /\ requests \in {[r \in Requests |-> Started(script[r])] :
                        script \in [Requests -> UNION {Scripts(r) : r \in Requests}]}
    /\ \A r \in Requests : requests[r].script \in Scripts(r)
    /\ semaphore \in {Semaphore(handoff) : handoff \in BOOLEAN}
    /\ allowed_actions = ALLOWED_ACTIONS
    /\ onboard = NotOnboarding

ConcurrentNext ==
    \E r \in Requests :
        \/ ReqStart(r)
        \/ ReqResumed(r)
        \/ ReqPlanReplied(r)
        \/ ReqStepReturned(r)
        \/ ReqStepFailed(r)
        \/ ReqSynthReplied(r)

ConcurrentSpec == ConcurrentInit /\ [][ConcurrentNext]_vars

\* ------------------------------------------- a stream of execute calls
\* The route handler awaits orchestrator.execute for every request that
\* comes in: when a call has ended another request can arrive in its place,
\* so that at most three calls are under way and their number has no end.
StreamScripts(r) ==
    {Script(Reply(ArrayText(<< OwnStep(r, 0) >>)), << Returned(OwnResult(r)) >>,
            Reply(JsonText("text", 1))),
     Script(Reply(ArrayText(<< OwnStep(r, 0) >>)), << Raised(AgentError(r, 0)) >>,
            Reply(JsonText("text", 1))),
     Script(CallRaises, << >>, Reply(JsonText("text", 1)))}

ReqArrives(r) ==
    /\ requests[r].at \in {"done", "failed"}
    /\ \E script \in StreamScripts(r) :
          requests' = [requests EXCEPT ![r] = Started(script)]
    /\ UNCHANGED << execute_vars, held, calls, onboard, semaphore, allowed_actions >>

FairGateInit ==
    /\ ExecuteStarted
    /\ "JiraAgent" \in agents
    /\ ValidatorUnused
    /\ requests \in {[r \in Requests |-> Started(script[r])] :
                        script \in [Requests -> UNION {StreamScripts(r) : r \in Requests}]}
    /\ \A r \in Requests : requests[r].script \in StreamScripts(r)
    /\ semaphore \in {Semaphore(handoff) : handoff \in BOOLEAN}
    /\ allowed_actions = ALLOWED_ACTIONS
    /\ onboard = NotOnboarding

FairGateNext ==
    \/ ConcurrentNext
    \/ \E r \in Requests : ReqArrives(r)

\* The event loop runs the task of a woken waiter, and every completion
\* call returns or raises: no request stays inside client.complete for
\* ever.  Nothing makes a request arrive or a provider operation end.
GateFairness ==
    \A r \in Requests :
        /\ WF_vars(ReqResumed(r))
        /\ []<>(r \notin InFlight)

FairGateSpec == FairGateInit /\ [][FairGateNext]_vars /\ GateFairness

\* ------------------------------------------------- execute_onboard_flow
VALID_JENKINS_SERVICES == {"AWS", "GitHub", "Confluence", "Database"}
SERVICE_NAME_MAP ==
    [aws |-> "AWS", github |-> "GitHub", confluence |-> "Confluence",
     database |-> "Database"]

\* item.get(key, ""): the value of the key, "" for a key that is absent.
AccessItem(item, status) == [item |-> item, status |-> status]
ItemGet(item, key) == IF key \in DOMAIN item THEN item[key] ELSE ElemStr("")

\* map_to_jenkins_services: .strip() of a value that is not a string raises
\* AttributeError; the names of the pending items that are keys of
\* SERVICE_NAME_MAP, as sorted(list(set(valid_services))).
map_to_jenkins_services(access_items) ==
    LET Stripped(i, key) == Strip(ItemGet(access_items[i], key).s)
        matching == {i \in 1..Len(access_items) :
                        /\ lower(Stripped(i, "status")) = "pending"
                        /\ lower(Stripped(i, "item")) \in DOMAIN SERVICE_NAME_MAP}
    IN IF \E i \in 1..Len(access_items) :
             \E key \in {"item", "status"} : ItemGet(access_items[i], key).t # "str"
          THEN [raises |-> TRUE, services |-> << >>]
          ELSE [raises |-> FALSE,
                services |-> sorted({SERVICE_NAME_MAP[lower(Stripped(i, "item"))] :
                                        i \in matching})]

\* What the lookup of the user in the database can give: an exception, no
\* user of that id, or the user's record.
MaxItems == 2
ItemNames == {ElemStr("AWS"), ElemStr("github"), ElemStr(" GitHub"), ElemStr("Jira")}
ItemStatuses == {ElemStr("pending"), ElemStr("Pending"), ElemStr(" pending "),
                 ElemStr("completed")}
AccessItems ==
    {AccessItem(item, status) : item \in ItemNames, status \in ItemStatuses}
    \cup {AccessItem(ElemNull, ElemStr("pending")), [item |-> ElemStr("AWS")],
          [status |-> ElemStr("pending")]}
UserRecord(emailid, access_items_status) ==
    [kind |-> "user", emailid |-> emailid, access_items_status |-> access_items_status]
Lookups ==
    {UserRecord(emailid, access_items_status) :
        emailid \in {"", "u@x"},
        access_items_status \in UNION {[1..n -> AccessItems] : n \in 0..MaxItems}}
    \cup {[NoUser EXCEPT !.kind = "raises"], [NoUser EXCEPT !.kind = "not found"]}

\* The TaskRequests of the flow.
EmailTask == [task |-> "Generate and save email", context |-> << >>]
JenkinsTask(user_email, valid_services) ==
    [task |-> "Onboard",
     context |-> [user_email |-> user_email, services |-> valid_services]]

\* orchestrator.execute is called: a new run starts on the same providers.
ExecuteCalled ==
    /\ pc' = "Planning"
    /\ agents' = agents
    /\ plan_calls' = 0
    /\ plan_text' = << >>
    /\ raw_plan' = << >>
    /\ vres' = NotValidated
    /\ plan_steps' = << >>
    /\ step_index' = 0
    /\ trace_entries' = << >>
    /\ warnings' = << >>
    /\ attempted' = << >>
    /\ invoked' = << >>
    /\ step_results' = << >>
    /\ synth_calls' = 0
    /\ prepared_trace' = << >>
    /\ response_text' = << >>
    /\ synthesis' = NotSynthesized
    /\ save_calls' = 0
    /\ saved' = << >>
    /\ failed_in' = "none"
    /\ raised' = NoError
    /\ exc_trace_entry' = << >>
    /\ exc_cause' = << >>
    /\ response' = NoResponse

ExecuteEnded == pc \in {"Complete", "Failed"}

\* Steps 1 and 2: the first sleep ends and the email task is submitted.
EmailTaskSubmitted ==
    /\ onboard.at = "sleep"
    /\ onboard.slept = 0
    /\ onboard' = [onboard EXCEPT !.at = "email task", !.slept = 1,
                                   !.submitted = Append(@, EmailTask)]
    /\ ExecuteCalled
    /\ UNCHANGED << held, calls, concurrent >>

\* The email task returns or raises; the exception is logged and the flow
\* sleeps again.
EmailTaskEnded ==
    /\ onboard.at = "email task"
    /\ ExecuteEnded
    /\ onboard' = [onboard EXCEPT !.at = "sleep", !.email_task = pc]
    /\ UNCHANGED << execute_vars, held, calls, concurrent >>

\* Steps 3 to 6 when no Jenkins task is submitted: the lookup raises, the
\* user is not found, map_to_jenkins_services raises or returns no
\* service, or the user has no email.
FlowReturns(lookups) ==
    /\ onboard.at = "sleep"
    /\ onboard.slept = 1
    /\ \E user \in lookups :
          LET mapped == map_to_jenkins_services(user.access_items_status)
              why == IF user.kind = "raises" THEN "fetch failed"
                     ELSE IF user.kind = "not found" THEN "user not found"
                     ELSE IF mapped.raises THEN "unexpected error"
                     ELSE IF mapped.services = << >> THEN "no valid services"
                     ELSE IF user.emailid = "" THEN "no email"
                     ELSE "none"
          IN /\ why # "none"
             /\ onboard' = [onboard EXCEPT !.at = "ended", !.slept = 2,
                                            !.user = user, !.ended = why]
    /\ UNCHANGED << execute_vars, held, calls, concurrent >>

\* Variant: the Jenkins task is submitted without an email as well.
JenkinsTaskSubmittedNoEmailCheck(lookups) ==
    /\ onboard.at = "sleep"
    /\ onboard.slept = 1
    /\ \E user \in lookups :
          LET mapped == map_to_jenkins_services(user.access_items_status)
          IN /\ user.kind = "user"
             /\ ~mapped.raises
             /\ mapped.services # << >>
             /\ onboard' = [onboard EXCEPT
                                !.at = "jenkins task", !.slept = 2, !.user = user,
                                !.submitted = Append(@, JenkinsTask(user.emailid,
                                                                    mapped.services))]
    /\ ExecuteCalled
    /\ UNCHANGED << held, calls, concurrent >>

\* Steps 3 to 6 when the user is found, has pending valid services and an
\* email: the Jenkins task is submitted.
JenkinsTaskSubmitted(lookups) ==
    /\ onboard.at = "sleep"
    /\ onboard.slept = 1
    /\ \E user \in lookups :
          LET mapped == map_to_jenkins_services(user.access_items_status)
          IN /\ user.kind = "user"
             /\ ~mapped.raises
             /\ mapped.services # << >>
             /\ user.emailid # ""
             /\ onboard' = [onboard EXCEPT
                                !.at = "jenkins task", !.slept = 2, !.user = user,
                                !.submitted = Append(@, JenkinsTask(user.emailid,
                                                                    mapped.services))]
    /\ ExecuteCalled
    /\ UNCHANGED << held, calls, concurrent >>

\* The Jenkins task returns or raises: the flow is over.
JenkinsTaskEnded ==
    /\ onboard.at = "jenkins task"
    /\ ExecuteEnded
    /\ onboard' = [onboard EXCEPT !.at = "ended",
                                   !.ended = IF pc = "Complete" THEN "completed"
                                                                ELSE "jenkins failed"]
    /\ UNCHANGED << execute_vars, held, calls, concurrent >>

\* The replies of the completion service to the planning calls of the flow's
\* tasks: the EntraAgent step the email task asks for, the Jenkins step, a
\* step of a provider that is not configured, and no plan at all.
OnboardCalls ==
    {Call("EntraAgent", "generate_company_email", EmptyArgs),
     Call("JenkinsAgent", "trigger_provide_access",
          GoodAccess(StrList(<< "GitHub", "AWS" >>))),
     Call("JiraAgent", "search_issues", GoodSearch)}
OnboardPlans ==
    {<< RawStep(0, c) >> : c \in OnboardCalls}
    \cup {<< RawStep(0, c), RawStep(1, d) >> :
              c \in OnboardCalls \ {Call("EntraAgent", "generate_company_email", EmptyArgs)},
              d \in OnboardCalls}

\* execute runs while the flow awaits it.
OnboardRun ==
    /\ onboard.at \in {"email task", "jenkins task"}
    /\ Run(PlanTexts(OnboardPlans), {PlainResponse}, AgentErrors, PlainReplies)

OnboardInit ==
    /\ ExecuteStarted
    /\ ValidatorUnused
    /\ requests = << >>
    /\ semaphore = Semaphore(TRUE)
    /\ allowed_actions = ALLOWED_ACTIONS
    /\ onboard = [NotOnboarding EXCEPT !.at = "sleep"]
OnboardNext ==
    \/ EmailTaskSubmitted
    \/ OnboardRun
    \/ EmailTaskEnded
    \/ FlowReturns(Lookups)
    \/ JenkinsTaskSubmitted(Lookups)
    \/ JenkinsTaskEnded
OnboardSpec == OnboardInit /\ [][OnboardNext]_vars

\* ============================================================== properties
\* validator.validate has been called on raw_plan and vres holds its outcome.
ValidationDone == pc \notin {"Planning", "Validating"} /\ failed_in # "Planning"
Validated == ValidationDone /\ vres.err = NoError
Rejected == ValidationDone /\ vres.err # NoError

Registered(step) ==
    /\ step.agent \in DOMAIN ALLOWED_ACTIONS
    /\ step.action \in DOMAIN ALLOWED_ACTIONS[step.agent]
Requirements(step) == ALLOWED_ACTIONS[step.agent][step.action]
RawIndices == 1..Len(raw_plan)

\* ---------------------------------------------------------------------- C1
\* C1: when the operation of the k-th step raises AgentError after steps
\* 1..k-1 succeeded, the run has failed with a trace of exactly k entries
\* (k-1 success entries, then the failure entry), the operations called are
\* exactly those of steps 1..k in plan order (nothing after k, no extra call
\* undoing an earlier step), and nothing happens after the failure.
C1_FailureIsLast ==
    \A k \in 1..Len(trace_entries) :
        trace_entries[k].outcome = "failure" =>
            /\ pc = "Failed"
            /\ Len(trace_entries) = k
            /\ \A j \in 1..(k - 1) : trace_entries[j].outcome = "success"
            /\ invoked = [j \in 1..k |-> Invocation(plan_steps[j])]

C1_AgentErrorTrace ==
    (pc = "Failed" /\ raised = TaskExecutionError("Agent step failed.")) =>
        /\ Len(trace_entries) = step_index
        /\ trace_entries[step_index].outcome = "failure"
        /\ trace_entries[step_index].step_id = plan_steps[step_index].step_id
        /\ \A j \in 1..(step_index - 1) :
              /\ trace_entries[j].outcome = "success"
              /\ trace_entries[j].step_id = plan_steps[j].step_id

C1_FailFast ==
    /\ [](C1_FailureIsLast /\ C1_AgentErrorTrace)
    /\ [][pc = "Failed" => UNCHANGED vars]_vars

\* A 3-step plan whose second step failed after the first succeeded.
C1_Witness ==
    /\ pc = "Failed"
    /\ Len(plan_steps) = 3
    /\ Len(trace_entries) = 2
    /\ trace_entries[1].outcome = "success"
    /\ trace_entries[2].outcome = "failure"
    /\ Len(invoked) = 2

\* ---------------------------------------------------------------------- C2
\* C2: a run whose plan generation failed or whose plan the validator
\* rejected is in Failed with an empty trace, no provider operation called,
\* no synthesis call, no call of the trace sink and no response.
C2_EarlyFailureLeavesNothing ==
    (failed_in \in {"Planning", "Validating"} \/ Rejected) =>
        /\ pc = "Failed"
        /\ failed_in \in {"Planning", "Validating"}
        /\ raised # NoError
        /\ trace_entries = << >>
        /\ invoked = << >>
        /\ synth_calls = 0
        /\ save_calls = 0
        /\ ~response.returned

\* A 3-step plan rejected at its third step.
C2_Witness ==
    /\ pc = "Failed"
    /\ failed_in = "Validating"
    /\ Len(raw_plan) = 3
    /\ vres.at = 3

\* ---------------------------------------------------------------------- C3
\* C3: every validated step names a registry entry; a raw plan with a step
\* whose provider or operation is not in the registry is rejected, the
\* argument check never having run for that step; every operation the
\* executor calls is a registry entry.
C3_OnlyRegisteredActions ==
    /\ Validated => \A i \in 1..Len(plan_steps) : Registered(plan_steps[i])
    /\ ValidationDone =>
          \A i \in RawIndices :
              ~Registered(raw_plan[i]) =>
                  /\ Rejected
                  /\ pc = "Failed"
                  /\ vres.at <= i
                  /\ i \notin vres.arg_checked
    /\ \A j \in 1..Len(invoked) : Registered(invoked[j])

\* Provider "Nope", with well-formed get_pr arguments, after a valid step.
C3_Witness ==
    /\ Rejected
    /\ vres.at = 2
    /\ raw_plan[2].agent = "Nope"
    /\ DOMAIN raw_plan[2].args # {}
    /\ vres.arg_checked = {1}

\* ---------------------------------------------------------------------- C4
\* The raw plan with every key the registry does not declare removed from
\* the args of its registered steps.
WithoutExtraKeys(raw) ==
    [i \in 1..Len(raw) |->
        IF Registered(raw[i])
            THEN [raw[i] EXCEPT !.args = Restrict(raw[i].args,
                                                  ReqKeys(Requirements(raw[i])))]
            ELSE raw[i]]

HasExtraKey(raw_step) ==
    Registered(raw_step) /\ ~(DOMAIN raw_step.args \subseteq ReqKeys(Requirements(raw_step)))

\* C4: the args of every validated step, and of every call made by the
\* executor, have only keys the registry declares for the operation; extra
\* keys never change the outcome: the raw plan is validated exactly as the
\* same plan without them (same acceptance, same validated steps).
C4_ExtraKeysDropped ==
    /\ Validated =>
          \A i \in 1..Len(plan_steps) :
              DOMAIN plan_steps[i].args \subseteq ReqKeys(Requirements(plan_steps[i]))
    /\ \A j \in 1..Len(invoked) :
          /\ DOMAIN invoked[j].args \subseteq ReqKeys(Requirements(invoked[j]))
          /\ invoked[j].args = plan_steps[j].args
    /\ ValidationDone =>
          LET clean == validate(WithoutExtraKeys(raw_plan))
          IN /\ clean.err = vres.err
             /\ clean.at = vres.at
             /\ clean.steps = vres.steps

\* A step with an extra key was accepted and its operation called.
C4_Witness ==
    /\ Validated
    /\ Len(raw_plan) >= 2
    /\ HasExtraKey(raw_plan[2])
    /\ Len(invoked) >= 2
    /\ "token" \notin DOMAIN invoked[2].args

\* ---------------------------------------------------------------------- C5
\* Positions of raw whose step_id already occurs at an earlier position.
Repeats(raw) ==
    {j \in 1..Len(raw) : \E i \in 1..(j - 1) : raw[i].step_id = raw[j].step_id}
FirstRepeat(raw) == CHOOSE j \in Repeats(raw) : \A k \in Repeats(raw) : j <= k

DistinctStepIds(steps) ==
    \A i, j \in 1..Len(steps) : i # j => steps[i].step_id # steps[j].step_id

DuplicateError(raw, j) == PlanValidationError("duplicate", "step_id", raw[j].step_id)

\* C5 as stated: validated step_ids are pairwise distinct, and every raw
\* plan with a repeated step_id is rejected at its first repeated step with
\* the error that cites the repeated step_id.
C5_RejectedAtFirstRepeat ==
    /\ Validated => DistinctStepIds(plan_steps)
    /\ (ValidationDone /\ Repeats(raw_plan) # {}) =>
          /\ Rejected
          /\ vres.at = FirstRepeat(raw_plan)
          /\ vres.err = DuplicateError(raw_plan, FirstRepeat(raw_plan))

\* C5 (amended): validated step_ids are pairwise distinct; a raw plan with a
\* repeated step_id is rejected as a whole, no later than at its first
\* repeated step; when the scan reaches that step and the step passes the
\* PlanStep construction, the error is the duplicate error citing its
\* step_id, whatever else is wrong with the step or the steps after it.
C5_DuplicatesRejected ==
    /\ Validated => DistinctStepIds(plan_steps)
    /\ (ValidationDone /\ Repeats(raw_plan) # {}) =>
          LET first == FirstRepeat(raw_plan)
          IN /\ Rejected
             /\ pc = "Failed"
             /\ vres.at <= first
             /\ (vres.at = first /\ PlanStepError(raw_plan[first]) = NoError) =>
                    vres.err = DuplicateError(raw_plan, first)
             /\ (\A i \in 1..(first - 1) :
                    validate(<< raw_plan[i] >>).err = NoError) => vres.at = first

\* The third step repeats a step_id and names an unregistered operation: the
\* duplicate is what is reported.
C5_Witness ==
    /\ Rejected
    /\ Len(raw_plan) = 3
    /\ vres.at = 3
    /\ vres.err.kind = "duplicate"
    /\ ~Registered(raw_plan[3])

\* ---------------------------------------------------------------------- C6
\* Positions and keys where the registry expects an integer and the raw
\* step supplies a float.
FloatForInt(raw) ==
    {ik \in (1..Len(raw)) \X {"number", "limit"} :
        /\ Registered(raw[ik[1]])
        /\ \E r \in 1..Len(Requirements(raw[ik[1]])) :
              /\ Requirements(raw[ik[1]])[r].key = ik[2]
              /\ Requirements(raw[ik[1]])[r].type = "int"
        /\ ik[2] \in DOMAIN raw[ik[1]].args
        /\ raw[ik[1]].args[ik[2]].t = "float"}

\* The raw plan with every integer-valued float that stands where an
\* integer is expected replaced by that integer.
IntegralAsInt(raw) ==
    [i \in 1..Len(raw) |->
        [raw[i] EXCEPT !.args =
            [k \in DOMAIN raw[i].args |->
                IF << i, k >> \in FloatForInt(raw) /\ raw[i].args[k].m = 0
                    THEN IntV(raw[i].args[k].n)
                    ELSE raw[i].args[k]]]]

\* C6: a float with a fractional part where an integer is expected makes
\* the plan rejected; a float without one is stored as the equal integer in
\* the validated step, and the plan is validated exactly as if the integer
\* had been supplied.
C6_IntegralFloatCoerced ==
    ValidationDone =>
        /\ \A ik \in FloatForInt(raw_plan) :
              LET value == raw_plan[ik[1]].args[ik[2]]
              IN /\ value.m # 0 => (Rejected /\ vres.at <= ik[1])
                 /\ (value.m = 0 /\ Validated) =>
                        plan_steps[ik[1]].args[ik[2]] = IntV(value.n)
        /\ LET as_int == validate(IntegralAsInt(raw_plan))
           IN as_int.err = vres.err /\ as_int.steps = vres.steps

\* get_pr with number 5.0 was accepted and called with the integer 5.
C6_Witness ==
    /\ Validated
    /\ Len(invoked) >= 1
    /\ << 1, "number" >> \in FloatForInt(raw_plan)
    /\ raw_plan[1].args["number"] = FloatV(5, 0)
    /\ invoked[1].args["number"] = IntV(5)

\* ---------------------------------------------------------------------- C7
\* Positions and requirement indices whose declared argument is present in
\* a registered raw step.
PresentArgs(raw) ==
    {ir \in (1..Len(raw)) \X (1..6) :
        /\ Registered(raw[ir[1]])
        /\ ir[2] <= Len(Requirements(raw[ir[1]]))
        /\ Requirements(raw[ir[1]])[ir[2]].key \in DOMAIN raw[ir[1]].args}

\* C7 as stated: every declared argument present in a validated step has
\* exactly the declared type (a bool is not an integer), and any raw value
\* of another type, the integer-valued float excepted, makes the plan
\* rejected.
C7_DeclaredTypesOnly ==
    ValidationDone =>
        \A ir \in PresentArgs(raw_plan) :
            LET req == Requirements(raw_plan[ir[1]])[ir[2]]
                value == raw_plan[ir[1]].args[req.key]
            IN /\ Validated => plan_steps[ir[1]].args[req.key].t = req.type
               /\ (value.t # req.type
                     /\ ~(req.type = "int" /\ value.t = "float" /\ value.m = 0))
                    => Rejected

\* ---------------------------------------------------------------------- C8
\* A well-typed value for a declared argument.
Sample(type) ==
    CASE type = "str" -> StrV("dev") [] type = "int" -> IntV(5)
      [] OTHER -> StrList(<< "AWS" >>)

RECURSIVE FillOptional(_, _, _)
FillOptional(args, requirements, i) ==
    IF i > Len(requirements) THEN args
    ELSE IF ~requirements[i].required /\ requirements[i].key \notin DOMAIN args
        THEN FillOptional(Put(args, requirements[i].key, Sample(requirements[i].type)),
                          requirements, i + 1)
        ELSE FillOptional(args, requirements, i + 1)

\* The raw plan with every missing optional argument supplied.
WithOptionals(raw) ==
    [i \in 1..Len(raw) |->
        IF Registered(raw[i])
            THEN [raw[i] EXCEPT !.args = FillOptional(raw[i].args, Requirements(raw[i]), 1)]
            ELSE raw[i]]

\* C8: every validated step has every required argument; a registered raw
\* step without one makes the plan rejected; an optional argument that is
\* missing stays missing and does not decide acceptance (the plan is
\* accepted exactly when it is accepted with the optional arguments given).
C8_RequiredArgsPresent ==
    ValidationDone =>
        /\ \A i \in RawIndices :
              Registered(raw_plan[i]) =>
                \A r \in 1..Len(Requirements(raw_plan[i])) :
                    LET req == Requirements(raw_plan[i])[r]
                    IN /\ (req.required /\ Validated) =>
                            req.key \in DOMAIN plan_steps[i].args
                       /\ (req.required /\ req.key \notin DOMAIN raw_plan[i].args) =>
                            (Rejected /\ vres.at <= i)
                       /\ (~req.required /\ req.key \notin DOMAIN raw_plan[i].args
                             /\ Validated) =>
                            req.key \notin DOMAIN plan_steps[i].args
        /\ (validate(WithOptionals(raw_plan)).err = NoError) = (vres.err = NoError)

\* get_pr without its required `number`, after a valid step.
C8_Witness ==
    /\ Rejected
    /\ vres.at = 2
    /\ vres.err = PlanValidationError("missing", "number", -1)
    /\ vres.arg_checked = {1, 2}

\* ---------------------------------------------------------------------- C9
IsAccessStep(step) ==
    step.agent = "JenkinsAgent" /\ step.action = "trigger_provide_access"

ValidServiceElems == {ElemStr(x) : x \in VALID_SERVICES}

\* C9 as stated: the services stored for a validated access step are a
\* non-empty, strictly ascending list of valid service names; a raw services
\* list that is empty or has an element outside the set makes the plan
\* rejected.
C9_ServicesCanonical ==
    ValidationDone =>
        \A i \in RawIndices :
            IsAccessStep(raw_plan[i]) =>
                /\ Validated =>
                      LET stored == plan_steps[i].args["services"]
                      IN /\ stored.t = "list"
                         /\ Len(stored.l) >= 1
                         /\ \A e \in 1..Len(stored.l) : stored.l[e] \in ValidServiceElems
                         /\ \A e \in 1..(Len(stored.l) - 1) :
                               StrLess(stored.l[e].s, stored.l[e + 1].s)
                /\ ("services" \in DOMAIN raw_plan[i].args
                      /\ raw_plan[i].args["services"].t = "list"
                      /\ LET given == raw_plan[i].args["services"].l
                         IN \/ Len(given) = 0
                            \/ \E e \in 1..Len(given) : given[e] \notin ValidServiceElems)
                    => Rejected

\* --------------------------------------------------------------------- C10
\* C10: an accepted plan has as many steps as the raw plan, and its i-th
\* step has the step_id, provider and operation of the i-th raw step.
C10_OrderPreserved ==
    Validated =>
        /\ Len(plan_steps) = Len(raw_plan)
        /\ \A i \in RawIndices :
              /\ plan_steps[i].step_id = raw_plan[i].step_id
              /\ plan_steps[i].agent = raw_plan[i].agent
              /\ plan_steps[i].action = raw_plan[i].action

\* Three steps whose step_ids are not in ascending order, two providers.
C10_Witness ==
    /\ Validated
    /\ Len(plan_steps) = 3
    /\ raw_plan[1].step_id > raw_plan[2].step_id
    /\ raw_plan[2].step_id < raw_plan[3].step_id
    /\ raw_plan[1].agent # raw_plan[3].agent

C12_OnlyPlanValidationError ==
    ValidationDone =>
        /\ vres.err.exc \in {"none", "PlanValidationError"}
        /\ Rejected =>
              /\ pc = "Failed"
              /\ raised = TaskExecutionError("Plan validation failed.")

\* --------------------------------------------------------------------- C13
EntryIsFor(entry, step) ==
    /\ entry.step_id = step.step_id
    /\ entry.agent = step.agent
    /\ entry.action = step.action

\* The steps are attempted in plan order, one _execute_step call each.
AttemptedInOrder ==
    /\ Len(attempted) <= Len(plan_steps)
    /\ \A k \in 1..Len(attempted) : attempted[k] = k

\* C13 as stated: the trace has exactly one entry for every step that
\* _execute_step was called for, however the call ended, and none for any
\* other step.
C13_OneEntryPerAttempt ==
    /\ AttemptedInOrder
    /\ Len(trace_entries) = Len(attempted)
    /\ \A k \in 1..Len(trace_entries) :
          EntryIsFor(trace_entries[k], plan_steps[attempted[k]])

\* The last _execute_step call ended without a TraceEntry: the provider was
\* not in the map, or the operation raised something that is no AgentError.
EndedWithoutEntry ==
    /\ pc = "Failed"
    /\ failed_in = "Executing"
    /\ raised \in {TaskExecutionError("Agent is not available."), OtherException}

\* C13 (amended): the trace has exactly one entry for every attempted step
\* whose operation returned or raised AgentError, in plan order, and none
\* for a step that was not attempted; the one attempted step without an
\* entry is the last one, when its provider was missing from the map or its
\* operation raised an exception that is not an AgentError.
C13_OneEntryPerFinishedCall ==
    /\ AttemptedInOrder
    /\ \A k \in 1..Len(trace_entries) :
          /\ k <= Len(attempted)
          /\ EntryIsFor(trace_entries[k], plan_steps[attempted[k]])
    /\ Len(trace_entries) =
          IF EndedWithoutEntry THEN Len(attempted) - 1 ELSE Len(attempted)

\* Two of three steps attempted, the second ending in AgentError: two
\* entries, none for the third step.
C13_Witness ==
    /\ Len(plan_steps) = 3
    /\ attempted = << 1, 2 >>
    /\ Len(trace_entries) = 2
    /\ trace_entries[2].outcome = "failure"
    /\ raised = TaskExecutionError("Agent step failed.")

\* --------------------------------------------------------------------- C14
\* C14: when the operation of a step raised AgentError, the run has failed
\* with TaskExecutionError; the error carries a TraceEntry with the step's
\* step_id, provider, operation and arguments, the error message as
\* response_summary, exactly that message as warnings, truncated false and
\* the measured duration; and that entry is the last of the trace, after
\* the entries of the steps before.
C14_AgentErrorEntry ==
    exc_cause # << >> =>
        LET error == exc_cause[1]
            step == plan_steps[step_index]
        IN /\ pc = "Failed"
           /\ raised = TaskExecutionError("Agent step failed.")
           /\ Len(exc_trace_entry) = 1
           /\ Len(trace_entries) = step_index
           /\ trace_entries[step_index] = exc_trace_entry[1]
           /\ LET entry == exc_trace_entry[1]
              IN /\ EntryIsFor(entry, step)
                 /\ entry.request = step.args
                 /\ entry.response_summary = Text(error.message, MessageLen(error.message))
                 /\ entry.warnings = << error.message >>
                 /\ entry.truncated = FALSE
                 /\ entry.duration_ms = error.duration_ms

\* The second step's operation raised AgentError("boom") after 7 ms.
C14_Witness ==
    /\ exc_cause = << AgentError("boom", 7) >>
    /\ step_index = 2
    /\ Len(trace_entries) = 2
    /\ trace_entries[2].warnings = << "boom" >>
    /\ trace_entries[1].outcome = "success"

C16_SummaryBoundary ==
    \A k \in 1..Len(step_results) :
        LET result == step_results[k]
            serialized == Serialized(result.data)
            entry == trace_entries[k]
            cut == serialized.chars > 1200
        IN /\ entry.outcome = "success"
           /\ summarize_response(result.data, 1200) = << entry.response_summary, cut >>
           /\ ~cut => entry.response_summary = serialized
           /\ cut => /\ entry.response_summary =
                            [of |-> serialized.of, chars |-> 1200, marker |-> TRUE]
                      /\ TextLen(entry.response_summary) = 1200 + 15
           /\ entry.truncated = (cut \/ result.truncated)

\* A payload of exactly 1200 characters was summarized uncut, then one of
\* 1201 characters was cut, the provider reporting truncated = false.
C16_Witness ==
    /\ Len(step_results) = 2
    /\ Serialized(step_results[1].data).chars = 1200
    /\ ~trace_entries[1].truncated
    /\ Serialized(step_results[2].data).chars = 1201
    /\ step_results[2].kind = "AgentResponse"
    /\ ~step_results[2].truncated
    /\ trace_entries[2].truncated
    /\ trace_entries[2].response_summary.marker

\* --------------------------------------------------------------------- C17
\* C17: synthesize does with a JSON text (a document on one or more lines,
\* well formed or not) exactly what it does with the same text between a
\* first line of three backticks, with or without a language tag, and a
\* last line of three backticks: the same parsed value returned, or the
\* same error raised.
C17_FenceTransparent ==
    synth_calls > 0 =>
        /\ synthesis = synthesize(response_text)
        /\ response_text \in BareReplies =>
              \A tag \in FenceTags :
                  synthesize(Fenced(tag, response_text)) = synthesis
        /\ \A tag \in FenceTags, text \in BareReplies :
              response_text = Fenced(tag, text) => synthesis = synthesize(text)

\* A reply of four lines, ```json, a valid object on two lines, ```, was
\* parsed and the run completed with its final_result.
C17_Witness ==
    /\ pc = "Complete"
    /\ response_text = Fenced("json", JsonText("text", 2))
    /\ synthesis.err = NoError
    /\ synthesis.parsed = DocValue("text")
    /\ response.final_result.type = "text"

\* --------------------------------------------------------------------- C18
\* The cleaned reply parses to a JSON object that has the field final_result.
ObjectWithFinalResult(text) ==
    LET loaded == JsonLoads(CleanReply(text))
    IN /\ loaded.err = NoError
       /\ loaded.value.t = "dict"
       /\ "final_result" \in DOMAIN loaded.value.d

\* C18 as stated: synthesize returns exactly for the replies that are
\* objects with final_result; for every other reply (malformed JSON, an
\* object without the field, an array, a string, a number, null) it raises
\* PlannerError and execute fails with TaskExecutionError "Failed to
\* synthesize final result.".
C18_OtherRepliesArePlannerErrors ==
    synth_calls > 0 =>
        /\ (synthesis.err = NoError) = ObjectWithFinalResult(response_text)
        /\ ~ObjectWithFinalResult(response_text) =>
              /\ synthesis.err.exc = "PlannerError"
              /\ pc = "Failed"
              /\ raised = TaskExecutionError("Failed to synthesize final result.")

\* --------------------------------------------------------------------- C19
\* A final_result as the spec has it: an object whose `type` is "text" or
\* "structured" and whose `content` is an object.
WellFormedFinalResult(v) ==
    /\ v.t = "dict"
    /\ "type" \in DOMAIN v.d
    /\ v.d.type \in {JStr("text"), JStr("structured")}
    /\ "content" \in DOMAIN v.d
    /\ v.d.content.t = "dict"

\* C19 as stated: a run is Complete (response returned, sink called) only
\* with a well-formed final_result; when synthesize returned any other
\* final_result the run fails as a synthesis failure, without a response
\* and without a call of the sink.
C19_CompleteOnlyWellFormed ==
    (synth_calls > 0 /\ synthesis.err = NoError) =>
        LET final_result == synthesis.parsed.d.final_result
        IN /\ (pc = "Complete" \/ response.returned \/ save_calls > 0) =>
                  WellFormedFinalResult(final_result)
           /\ ~WellFormedFinalResult(final_result) =>
                  /\ pc = "Failed"
                  /\ failed_in = "Synthesizing"
                  /\ raised = TaskExecutionError("Failed to synthesize final result.")
                  /\ ~response.returned
                  /\ save_calls = 0

\* --------------------------------------------------------------------- C20
\* The trace that execute hands to its caller: the one of the response it
\* returns, or what the exception it raises carries.
CallerTrace == IF response.returned THEN response.trace ELSE exc_trace_entry

\* C20 as stated: when synthesis has failed, every step of the plan has
\* been executed once, in order, and has succeeded, the trace collected has
\* one entry per step, and that trace reaches the caller of execute with
\* the failure.
C20_TraceSurvivesSynthesisFailure ==
    failed_in = "Synthesizing" =>
        /\ pc = "Failed"
        /\ attempted = [k \in 1..Len(plan_steps) |-> k]
        /\ invoked = [k \in 1..Len(plan_steps) |-> Invocation(plan_steps[k])]
        /\ Len(trace_entries) = Len(plan_steps)
        /\ \A k \in 1..Len(trace_entries) :
              /\ trace_entries[k].outcome = "success"
              /\ EntryIsFor(trace_entries[k], plan_steps[k])
        /\ CallerTrace = trace_entries

\* ---------------------------------------------------------------------- C21
\* The TaskResponse execute would return, as lines 67-79 assemble it from
\* the locals of the run.
Assembled ==
    LET final_result == parse_obj(synthesis.parsed.d.final_result)
    IN [returned |-> TRUE, plan |-> plan_steps, trace |-> trace_entries,
        final_result |-> [type |-> final_result.type,
                          content |-> final_result.content],
        warnings |-> warnings]

\* C21: save_trace is called only by a run that completes, exactly once and
\* with the assembled TaskResponse; whatever save_trace does (writes, fails
\* to write, raises), the run returns that same response and does not fail.
C21_SinkIsBestEffort ==
    /\ (save_calls > 0 \/ saved # << >>) => pc = "Complete"
    /\ pc = "Complete" =>
          /\ save_calls = 1
          /\ Len(saved) = 1
          /\ saved[1].response = Assembled
          /\ response = Assembled
          /\ raised = NoError
          /\ failed_in = "none"

\* A completed run of a plan with steps whose trace was not written.
C21_Witness ==
    /\ pc = "Complete"
    /\ saved[1].outcome = "raised"
    /\ Len(response.trace) >= 1
    /\ response.returned

\* ---------------------------------------------------------------------- C22
\* C22: at every point of a run the trace is a prefix of the validated plan
\* (entry i carries the step_id, provider and operation of plan step i), and
\* a returned TaskResponse has one success entry for every step of its plan.
C22_TraceIsPlanPrefix ==
    /\ Len(trace_entries) <= Len(plan_steps)
    /\ \A i \in 1..Len(trace_entries) : EntryIsFor(trace_entries[i], plan_steps[i])
    /\ response.returned =>
          /\ Len(response.trace) = Len(response.plan)
          /\ \A i \in 1..Len(response.trace) :
                /\ EntryIsFor(response.trace[i], response.plan[i])
                /\ response.trace[i].outcome = "success"

\* A failed run whose trace is a proper prefix of a plan of different steps.
C22_Witness ==
    /\ pc = "Failed"
    /\ Len(plan_steps) = 3
    /\ Len(trace_entries) = 2
    /\ plan_steps[1].agent # plan_steps[2].agent
    /\ trace_entries[1].outcome = "success"
    /\ trace_entries[2].outcome = "failure"

\* ---------------------------------------------------------------------- C24
\* The provider operations called so far are those of the first steps of the
\* plan list, in list order, one call each.
InvokedInListOrder ==
    /\ Len(invoked) <= Len(plan_steps)
    /\ invoked = [i \in 1..Len(invoked) |-> Invocation(plan_steps[i])]

\* A provider operation is called only when every operation called before it
\* has returned and its success entry is in the trace.
InvokedAfterPredecessors ==
    invoked' # invoked =>
        /\ invoked' = Append(invoked, Invocation(plan_steps[Len(invoked) + 1]))
        /\ Len(step_results) = Len(invoked)
        /\ Len(trace_entries) = Len(invoked)
        /\ \A i \in 1..Len(invoked) :
              /\ trace_entries[i].outcome = "success"
              /\ EntryIsFor(trace_entries[i], plan_steps[i])

\* C24: provider operations are invoked one at a time in the order of the
\* plan list, whatever the step_id values; the operation of a step is invoked
\* only after the operation of the step before it has returned and its trace
\* entry has been appended, and no step's operation is invoked twice.
C24_SequentialInListOrder == []InvokedInListOrder /\ [][InvokedAfterPredecessors]_vars

\* Two operations have been called for a plan whose step_id values descend.
C24_Witness ==
    /\ Len(invoked) = 2
    /\ plan_steps[1].step_id > plan_steps[2].step_id
    /\ invoked[1] # invoked[2]
    /\ Len(trace_entries) = 2

\* ---------------------------------------------------------------------- C25
Terminal == {"Failed", "Complete"}

\* The moves from one stage to another; N is the length of the validated
\* plan, and a plan of no steps has no Executing stage.
StageMoves ==
    (pc' # pc \/ step_index' # step_index) =>
        \/ pc = "Planning" /\ pc' = "Validating"
        \/ /\ pc = "Validating" /\ pc' = "Executing"
           /\ step_index' = 1 /\ Len(plan_steps') >= 1
        \/ pc = "Validating" /\ pc' = "Synthesizing" /\ Len(plan_steps') = 0
        \/ /\ pc = "Executing" /\ pc' = "Executing"
           /\ step_index < Len(plan_steps) /\ step_index' = step_index + 1
        \/ pc = "Executing" /\ pc' = "Synthesizing" /\ step_index = Len(plan_steps)
        \/ pc = "Synthesizing" /\ pc' = "Complete"
        \/ /\ pc \in {"Planning", "Validating", "Executing", "Synthesizing"}
           /\ pc' = "Failed" /\ failed_in' = pc

\* Nothing at all is done by a run that has failed or completed.
NothingAfterTheEnd == pc \notin Terminal

\* The synthesis call is made for a validated plan all of whose steps
\* succeeded.
SynthesisAfterAllSteps ==
    (pc \in {"Synthesizing", "Complete"} \/ synth_calls > 0) =>
        /\ vres.err = NoError
        /\ Len(step_results) = Len(plan_steps)
        /\ Len(trace_entries) = Len(plan_steps)
        /\ \A i \in 1..Len(plan_steps) : trace_entries[i].outcome = "success"

\* C25: a run goes through Planning, Validating, Executing step 1..N,
\* Synthesizing and Complete in this order, or leaves the sequence for
\* Failed; nothing happens after Failed or Complete, and synthesis is called
\* only after all N steps succeeded.
C25_StagesInOrder ==
    /\ [][StageMoves /\ NothingAfterTheEnd]_vars
    /\ []SynthesisAfterAllSteps

\* A run of three steps has completed.
C25_Witness ==
    /\ pc = "Complete"
    /\ Len(plan_steps) = 3
    /\ step_index = 4
    /\ synth_calls = 1

\* ---------------------------------------------------------------------- C26
\* Some step of the run failed: its provider was missing or its operation
\* raised.
SomeStepFailed == failed_in = "Executing"

\* C26: when a run fails in Executing or Synthesizing the caller receives,
\* with the TaskExecutionError, the entries of all steps attempted so far, in
\* order; and a run in which a step failed returns no TaskResponse.
C26_PartialTraceDelivered ==
    /\ (/\ pc = "Failed"
        /\ failed_in \in {"Executing", "Synthesizing"}
        /\ raised.exc = "TaskExecutionError") => CallerTrace = trace_entries
    /\ SomeStepFailed => ~response.returned

\* ---------------------------------------------------------------------- C29
\* No position of the plan is attempted twice.
AttemptedOnce ==
    \A i, j \in 1..Len(attempted) : attempted[i] = attempted[j] => i = j

\* What a failed run had done when it failed: one planning call, and no more
\* than the failing stage itself.
FailedAtFirstFault ==
    pc = "Failed" =>
        /\ plan_calls = 1
        /\ failed_in \in {"Planning", "Validating"} =>
              attempted = << >> /\ invoked = << >> /\ synth_calls = 0
        /\ failed_in = "Executing" =>
              /\ synth_calls = 0
              /\ attempted[Len(attempted)] = step_index
              /\ Len(step_results) = step_index - 1
        /\ failed_in = "Synthesizing" => synth_calls = 1

\* C29: a run calls the completion service at most once for planning and at
\* most once for synthesis and attempts no step twice; a malformed reply, a
\* rejected plan or a failed step ends the run at once, with no second try.
C29_NoRetry ==
    /\ plan_calls <= 1
    /\ synth_calls <= 1
    /\ Len(invoked) <= Len(attempted)
    /\ AttemptedOnce
    /\ FailedAtFirstFault

\* A run whose synthesis reply was malformed, after two steps.
C29_Witness ==
    /\ pc = "Failed"
    /\ failed_in = "Synthesizing"
    /\ synthesis.err # NoError
    /\ plan_calls = 1
    /\ synth_calls = 1
    /\ Len(attempted) = 2

\* ---------------------------------------------------------------------- C30
\* Executing is left for Synthesizing, all N steps done, or for Failed, at
\* the step that failed and with every step before it done.
ExecutingEnds ==
    (pc = "Executing" /\ pc' # "Executing") =>
        \/ /\ pc' = "Synthesizing"
           /\ Len(step_results') = Len(plan_steps)
        \/ /\ pc' = "Failed"
           /\ failed_in' = "Executing"
           /\ attempted' = [i \in 1..step_index |-> i]
           /\ Len(step_results') = step_index - 1

\* C30: when every call a run makes returns or raises, the run reaches
\* Complete or Failed; Executing, once begun, goes on until all N steps are
\* done or a step fails, and does not stop in between.
C30_RunsToTheEnd ==
    /\ <>(pc \in Terminal)
    /\ (pc = "Executing") ~> (pc \in {"Synthesizing", "Failed"})
    /\ [][ExecutingEnds]_vars

\* A run of two steps that ended at its first step, which failed.
C30_Witness ==
    /\ pc = "Failed"
    /\ failed_in = "Executing"
    /\ Len(plan_steps) = 2
    /\ step_index = 1
    /\ step_results = << >>
    /\ invoked # << >>

\* ---------------------------------------------------------------------- C28
\* The reply is JSON text.
ParsesAsJson(text) == text.complete /\ ~text.fenced

\* The list a reply holds, if it holds one: the array itself, or the array
\* in the `plan` field of an object.
ListsOf(value) ==
    IF value.t = "list" THEN {value.l}
    ELSE IF value.t = "dict" /\ "plan" \in DOMAIN value.d /\ value.d.plan.t = "list"
        THEN {value.d.plan.l}
    ELSE {}

IsStepObject(element) ==
    /\ element.t = "dict"
    /\ \A field \in {"step_id", "agent", "action", "args"} : field \in DOMAIN element.d

\* The reply is a plan: JSON holding a list all of whose elements are
\* objects with the four keys.
ReplyIsPlan(text) ==
    /\ ParsesAsJson(text)
    /\ \E list \in ListsOf(text.value) :
          \A i \in 1..Len(list) : IsStepObject(list[i])

PlanningDone == plan_calls > 0

\* C28: planner.plan returns a plan exactly for a reply that is JSON, an
\* array or an object with an array in `plan`, all of whose elements are
\* objects with step_id, agent, action and args, and the plan is then the whole
\* list in its order; for any other reply it raises PlannerError (the run
\* fails in Planning) and no part of the reply becomes a plan.
C28_PlanOrPlannerError ==
    PlanningDone =>
        IF ReplyIsPlan(plan_text)
            THEN /\ failed_in # "Planning"
                 /\ \E list \in ListsOf(plan_text.value) :
                       /\ Len(raw_plan) = Len(list)
                       /\ \A i \in 1..Len(list) : raw_plan[i] = list[i].d
            ELSE /\ pc = "Failed"
                 /\ failed_in = "Planning"
                 /\ raised = TaskExecutionError("Planning step failed.")
                 /\ raw_plan = << >>
                 /\ plan_steps = << >>

\* A reply rejected for its second element, the first being a good step.
C28_Witness ==
    /\ PlanningDone
    /\ pc = "Failed"
    /\ ParsesAsJson(plan_text)
    /\ plan_text.value.t = "list"
    /\ Len(plan_text.value.l) = 2
    /\ IsStepObject(plan_text.value.l[1])
    /\ ~IsStepObject(plan_text.value.l[2])

\* C23: among the requests that share the planner at most one completion
\* call, planning or synthesis, is in flight at any time, and a request
\* comes to be in flight only when no call of another request is.
Listed(entries) == {entries[i] : i \in 1..Len(entries)}
AtMostOneInFlight == Cardinality(InFlight) <= 1
WaitsForTheEnd ==
    \A r \in Requests :
        (r \notin InFlight /\ requests'[r].at \in {"plan_call", "synth_call"})
            => InFlight = {}
C23_OneCallInFlight == []AtMostOneInFlight /\ [][WaitsForTheEnd]_vars

\* A synthesis call is in flight while the planning call of another request
\* waits at the gate.
C23_Witness ==
    \E r, q \in Requests :
        /\ requests[r].at = "synth_call"
        /\ requests[q].at = "plan_wait"
        /\ q \in Listed(semaphore.waiters)

\* What one execute call leaves behind when it runs alone, for the replies
\* of its script.
RECURSIVE SoloSteps(_, _, _, _, _)
SoloSteps(steps, outcomes, idx, trace, step_warnings) ==
    IF idx > Len(steps)
        THEN [entry |-> << >>, trace |-> trace, warnings |-> step_warnings]
    ELSE IF outcomes[idx].kind = "returned"
        THEN SoloSteps(steps, outcomes, idx + 1,
                       Append(trace, SuccessEntry(steps[idx], outcomes[idx].result)),
                       step_warnings \o outcomes[idx].result.warnings)
    ELSE LET trace_entry == FailureEntry(steps[idx], outcomes[idx].error)
         IN [entry |-> << trace_entry >>, trace |-> Append(trace, trace_entry),
             warnings |-> Append(step_warnings, "step failed")]

Left(at, steps, trace, all_warnings, exception, trace_entry, result) ==
    [at |-> at, plan_steps |-> steps, trace |-> trace, warnings |-> all_warnings,
     raised |-> exception, exc_trace_entry |-> trace_entry, response |-> result]
Outcome(req) ==
    Left(req.at, req.plan_steps, req.trace, req.warnings, req.raised,
         req.exc_trace_entry, req.response)

SoloRun(script) ==
    LET parsed == plan(script.plan_reply.text)
        result == validate(parsed.plan)
        ran == SoloSteps(result.steps, script.outcomes, 1, << >>, << >>)
        answer == synthesize(script.synthesis_reply.text)
        final_result == parse_obj(answer.parsed.d.final_result)
        all_warnings == ran.warnings \o SynthesisWarnings(answer.parsed)
        Thrown(exception) ==
            Left("failed", << >>, << >>, << >>, exception, << >>, NoResponse)
        ThrownLate(exception) ==
            Left("failed", result.steps, ran.trace, ran.warnings, exception,
                 ran.entry, NoResponse)
    IN IF script.plan_reply.raises THEN Thrown(CompletionError)
       ELSE IF parsed.err # NoError
          THEN Thrown(TaskExecutionError("Planning step failed."))
       ELSE IF result.err.exc = "PlanValidationError"
          THEN Thrown(TaskExecutionError("Plan validation failed."))
       ELSE IF result.err # NoError THEN Thrown(result.err)
       ELSE IF ran.entry # << >>
          THEN ThrownLate(TaskExecutionError("Agent step failed."))
       ELSE IF script.synthesis_reply.raises THEN ThrownLate(CompletionError)
       ELSE IF answer.err # NoError
          THEN ThrownLate(IF answer.err.exc = "PlannerError"
                             THEN TaskExecutionError("Failed to synthesize final result.")
                             ELSE answer.err)
       ELSE IF final_result.err # NoError THEN ThrownLate(final_result.err)
       ELSE Left("done", result.steps, ran.trace, all_warnings, NoError, << >>,
                 [returned |-> TRUE, plan |-> result.steps, trace |-> ran.trace,
                  final_result |-> [type |-> final_result.type,
                                    content |-> final_result.content],
                  warnings |-> all_warnings])

\* The names in a step's arguments, a trace entry and a list of warnings.
Finished == {r \in Requests : requests[r].at \in {"done", "failed"}}
Others(r) == Requests \ {r}
OwnDataOnly(r) ==
    LET req == requests[r]
    IN /\ \A step \in Listed(req.plan_steps) \cup Listed(req.response.plan) :
             step.args.owner = StrV(r)
       /\ \A entry \in Listed(req.trace) \cup Listed(req.response.trace)
                        \cup Listed(req.exc_trace_entry) :
             /\ entry.request.owner = StrV(r)
             /\ Listed(entry.warnings) \cap Others(r) = {}
       /\ Listed(req.warnings) \cap Others(r) = {}
       /\ Listed(req.response.warnings) \cap Others(r) = {}

\* C27: under every interleaving of concurrent execute calls each call's
\* plan, trace and warnings hold data of its own request only, a finished
\* call has left what it leaves when it runs alone with the same replies,
\* and ALLOWED_ACTIONS is what it was at process start.
C27_CallsAreIsolated ==
    /\ \A r \in Requests : OwnDataOnly(r)
    /\ \A r \in Finished : Outcome(requests[r]) = SoloRun(requests[r].script)
    /\ allowed_actions = ALLOWED_ACTIONS

\* Two calls that ran while the other was under way have finished, one with
\* a response of two trace entries, the other at a step that failed.
C27_Witness ==
    \E r, q \in Requests :
        /\ r # q
        /\ q \in requests[r].met
        /\ r \in requests[q].met
        /\ requests[r].at = "done"
        /\ Len(requests[r].response.trace) = 2
        /\ requests[q].at = "failed"
        /\ Len(requests[q].trace) = 2
        /\ requests[q].exc_trace_entry # << >>

\* C31: the (provider, operation) pairs the planning request offers are the
\* pairs of the registry the validator enforces: no offered operation is
\* rejected by the whitelist and none that passes it is missing from the
\* offer.
Offered ==
    UNION {{<< offer.name, action >> : action \in Listed(offer.actions)} :
              offer \in Listed(available_agents)}
Whitelisted ==
    UNION {{<< agent, action >> : action \in DOMAIN allowed_actions[agent]} :
              agent \in DOMAIN allowed_actions}
PairOf(step) == << step.agent, step.action >>
C31_OfferIsTheWhitelist ==
    /\ Offered = Whitelisted
    /\ \A i \in 1..Len(vres.steps) : PairOf(vres.steps[i]) \in Offered
    /\ vres.err.kind \in {"agent", "action"} => PairOf(raw_plan[vres.at]) \notin Offered

\* A planning call was made and the plan it returned is rejected for an
\* operation that GithubAgent is not offered with.
C31_Witness ==
    /\ plan_calls = 1
    /\ vres.err.kind = "action"
    /\ PairOf(raw_plan[vres.at]) = << "GithubAgent", "delete_repo" >>

\* C32: when a provider operation raises an exception that is not
\* AgentError, that exception leaves execute unconverted: the trace holds
\* the entries of the steps before only, the failing step is the last one
\* invoked, neither synthesis nor the trace sink is called and nothing is
\* returned.
OtherExceptionRaised ==
    /\ pc = "Failed"
    /\ failed_in = "Executing"
    /\ Len(invoked) = step_index
    /\ \A i \in 1..Len(exc_cause) : exc_cause[i] = OtherException
C32_OtherExceptionPropagates ==
    OtherExceptionRaised =>
        /\ raised = OtherException
        /\ raised.exc # "TaskExecutionError"
        /\ exc_trace_entry = << >>
        /\ Len(invoked) = step_index
        /\ Len(trace_entries) = step_index - 1
        /\ \A i \in 1..Len(trace_entries) : trace_entries[i].outcome = "success"
        /\ synth_calls = 0
        /\ save_calls = 0
        /\ response = NoResponse

\* The first of two steps returned and the operation of the second raised
\* an exception that is not AgentError.
C32_Witness ==
    /\ OtherExceptionRaised
    /\ Len(plan_steps) = 2
    /\ step_index = 2
    /\ Len(trace_entries) = 1

\* C33: for every trace entry given to synthesize, the summary sent to the
\* completion service is the entry's summary if that has at most 1200
\* characters and else its first 1200 characters and the marker; a summary
\* the executor has cut is sent as it is; the flag sent is true exactly if
\* the summary was cut here or the entry was marked truncated.
SentAsPrepared(entry, sent) ==
    LET summary == entry.response_summary
        first_1200 == [of |-> summary.of, chars |-> 1200, marker |-> TRUE]
    IN /\ TextLen(summary) <= 1200 => sent.response_summary = summary
       /\ TextLen(summary) > 1200 =>
             /\ summary.chars >= 1200
             /\ sent.response_summary = first_1200
       /\ summary.marker => sent.response_summary = summary
       /\ sent.truncated = (TextLen(summary) > 1200 \/ entry.truncated)
       /\ sent.step_id = entry.step_id
C33_SummaryRetruncated ==
    synth_calls > 0 =>
        /\ Len(prepared_trace) = Len(trace_entries)
        /\ \A i \in 1..Len(trace_entries) :
              SentAsPrepared(trace_entries[i], prepared_trace[i])

\* synthesize was given an entry whose summary the executor had cut and an
\* entry of a short summary that the provider marked truncated.
C33_Witness ==
    /\ synth_calls = 1
    /\ \E i, j \in 1..Len(trace_entries) :
          /\ trace_entries[i].response_summary.marker
          /\ TextLen(trace_entries[i].response_summary) = 1215
          /\ prepared_trace[i].response_summary = trace_entries[i].response_summary
          /\ ~trace_entries[j].response_summary.marker
          /\ trace_entries[j].truncated
          /\ prepared_trace[j].truncated

\* C34: a trigger_provide_access step whose services list has an element
\* that is a valid name but for its letter case is never validated: the
\* plan is rejected, at that step or before it, for the services when it is
\* for that argument, and no validated plan comes of it.
Miscased(elem) ==
    /\ elem.t = "str"
    /\ Strip(elem.s) \notin VALID_SERVICES
    /\ \E v \in VALID_SERVICES : lower(v) = lower(Strip(elem.s))
HasMiscased(raw_step) ==
    /\ raw_step.agent = "JenkinsAgent"
    /\ raw_step.action = "trigger_provide_access"
    /\ "services" \in DOMAIN raw_step.args
    /\ raw_step.args.services.t = "list"
    /\ \E elem \in Listed(raw_step.args.services.l) : Miscased(elem)
C34_ServicesCaseSensitive ==
    \A i \in 1..Len(raw_plan) :
        HasMiscased(raw_plan[i]) =>
            /\ plan_steps = << >>
            /\ pc \notin {"Planning", "Validating"} =>
                  /\ vres.err # NoError
                  /\ vres.at <= i
                  /\ (vres.at = i /\ vres.err.name = "services") =>
                         vres.err.kind = "services_invalid"

\* The plan whose only step asks for github, AWS and aws was rejected for
\* its services.
C34_Witness ==
    /\ pc = "Failed"
    /\ Len(raw_plan) = 1
    /\ HasMiscased(raw_plan[1])
    /\ raw_plan[1].args.services =
           ListV(<< ElemStr("github"), ElemStr("AWS"), ElemStr("aws") >>)
    /\ vres.err = PlanValidationError("services_invalid", "services", -1)

\* C35 as stated: the Jenkins task is submitted only after the email task
\* has ended, returned or raised, and only for a user that was found, has an
\* email and has an item of status 'pending' whose name is that of a valid
\* service but for letter case; the services passed are the valid names of
\* exactly those items, without repeats, sorted.
JenkinsSubmitted == Len(onboard.submitted) = 2
IsItem(item) ==
    /\ DOMAIN item = {"item", "status"}
    /\ item.item.t = "str"
    /\ item.status.t = "str"
ValidNameOf(name) == CHOOSE v \in VALID_JENKINS_SERVICES : lower(v) = lower(name)
NamesValid(name) == \E v \in VALID_JENKINS_SERVICES : lower(v) = lower(name)
PendingAsWritten(item) ==
    /\ IsItem(item)
    /\ item.status.s = "pending"
    /\ NamesValid(item.item.s)
SubmittedFor(pending_items, name_of) ==
    JenkinsSubmitted =>
        /\ onboard.submitted[1] = EmailTask
        /\ onboard.email_task \in {"Complete", "Failed"}
        /\ onboard.user.kind = "user"
        /\ pending_items # {}
        /\ onboard.user.emailid # ""
        /\ onboard.submitted[2].context.user_email = onboard.user.emailid
        /\ onboard.submitted[2].context.services =
               sorted({ValidNameOf(name_of[item]) : item \in pending_items})
PendingAsRead(item) ==
    /\ IsItem(item)
    /\ lower(Strip(item.status.s)) = "pending"
    /\ NamesValid(Strip(item.item.s))
NamesEntra(step) == step.agent = "EntraAgent"
C39_ValidatedServicesPassAgent ==
    \A i \in 1..Len(plan_steps) :
        IsAccessStep(plan_steps[i]) =>
            LET stored == plan_steps[i].args.services
                checked == trigger_provide_access_services(stored.l)
            IN /\ checked.err = "none"
               /\ StrList(checked.sent) = stored

\* C40: every trace entry, of a step that succeeded or of one that failed,
\* has a summary of at most 1200 characters and the 15 of the marker, and is
\* marked truncated when the text it summarises, the serialized payload or
\* the error message, has more than 1200 characters.
SummarisedLen(k) ==
    IF trace_entries[k].outcome = "success"
        THEN Serialized(step_results[k].data).chars
        ELSE MessageLen(exc_cause[1].message)
C40_SummaryBounded ==
    \A k \in 1..Len(trace_entries) :
        /\ TextLen(trace_entries[k].response_summary) <= 1200 + 15
        /\ SummarisedLen(k) > 1200 => trace_entries[k].truncated

\* C36: the permit of the completion-service gate is with a request whose
\* completion call is in flight, or on its way to the waiter that was woken
\* for it, and nowhere else: it is given back when the call returns and when
\* it raises, no request holds it while it parses, validates, runs a step or
\* has ended, no request in flight waits for it, every waiting request is
\* queued or woken and some call is in flight or some waiter woken whenever
\* one waits, and when all requests have ended the gate is free.
Granted == IF semaphore.handoff THEN semaphore.woken ELSE {}
PermitIsInFlight ==
    semaphore.value + Cardinality(InFlight) + Cardinality(Granted) = GateWidth
NoWaitWhileHolding ==
    (Listed(semaphore.waiters) \cup semaphore.woken) \cap InFlight = {}
NoLostWaiter ==
    /\ Waiting = Listed(semaphore.waiters) \cup semaphore.woken
    /\ Waiting # {} => (InFlight # {} \/ semaphore.woken # {})
FreeAtTheEnd ==
    Finished = Requests => semaphore = Semaphore(semaphore.handoff)
C36_GateHeldOnlyInFlight ==
    PermitIsInFlight /\ NoWaitWhileHolding /\ NoLostWaiter /\ FreeAtTheEnd

\* All requests have ended and the gate is free: the planning call of one
\* raised, the synthesis call of another raised after it had met the first,
\* and the third returned a response after it had met both.
C36_Witness ==
    \E r, q, p \in Requests :
        /\ Finished = Requests
        /\ requests[r].script.plan_reply.raises
        /\ requests[r].raised = CompletionError
        /\ requests[q].script.synthesis_reply.raises
        /\ requests[q].raised = CompletionError
        /\ r \in requests[q].met
        /\ requests[p].at = "done"
        /\ {r, q} \subseteq requests[p].met
        /\ semaphore.value = GateWidth

WaiterCallsOnHandoff ==
    \A r \in Requests :
        (semaphore.handoff /\ r \in Waiting) ~> (r \in InFlight)

====
